---------------------------- MODULE Spec2Model ----------------------------
(***************************************************************************)
(* Surface-nets planet: octree LOD manager (UOctreeComponent), planet      *)
(* chunks (FPlanetChunk) and the asynchronous chunk generation manager     *)
(* (FPlanetAsyncTaskManager).                                              *)
(*                                                                         *)
(* World coordinates are integers.  Distances are kept squared, so that    *)
(* every comparison the program makes on floats is decided exactly.        *)
(***************************************************************************)
EXTENDS Integers, Sequences, FiniteSets, TLC

(***************************************************************************)
(* Configuration of the octree component (UPROPERTY values) and bounds.    *)
(***************************************************************************)
\* The UPROPERTY members MaxDepth, RootSize and SubdivisionDistance are state
\* (see VARIABLES).  The configuration the component is checked with: MaxDepth
\* 2 (the default is 5), RootSize 16 world units (default 2048),
\* SubdivisionDistance 6 (default 500)
SmallConfiguration == [ MaxDepth |-> 2, RootSize |-> 16, SubdivisionDistance |-> 6 ]
\* the planet actor: the number of components its constructor makes, and the
\* UPROPERTY values MaxActiveChunks, MaxChunksPerFrame, LODUpdateInterval (in
\* frame-time units) and MinCameraMovementForUpdate
ActorConfiguration ==
    [ PoolSize |-> 2, MaxActiveChunks |-> 1, MaxChunksPerFrame |-> 1,
      LODUpdateInterval |-> 2, MinCameraMovementForUpdate |-> 10 ]
\* UOctreeComponent::MergeDistanceMultiplier, the default 3.0
MergeDistanceMultiplier == 3
\* 100 * log2(MergeDistanceMultiplier), rounded down: log2(3) = 1.58496...
Log2MergeMultiplier100 == 158
\* FPlanetChunk::GetVoxelResolution: the floor of the voxel resolution
MinVoxelResolution == 4
\* FPlanetChunk::GetVoxelResolution: BaseResolution, 16 in the source; the
\* model bounds the lattice to keep the density scan small
BaseResolution == 4
\* cap on the arena length (Nodes.Num() is unbounded in the program)
MaxNodes == 33
\* the same cap, where SubdivideNode and MergeNode are called one by one
MaxOpsNodes == 17
\* cap on the number of in-flight asynchronous tasks
MaxTasks == 2
\* the caller asks for the generation of the first MaxGenChunks chunk objects
MaxGenChunks == 2
\* the same, where generation is asynchronous
MaxAsyncChunks == 1

\* the "none" index of ChildIndices / ParentIndex
NoIndex == 0 - 1
\* an empty TSharedPtr<FPlanetChunk>
NoChunk == 0
\* a null UNoiseGenerator* (a generator is named by its PlanetRadius squared)
NullGenerator == 0 - 1
\* an empty TFunction (no completion callback)
NoCallback == "none"

\* viewer positions offered to UpdateLOD
CameraPositions == { <<0, 0, 0>>, <<1, 1, 1>>, <<4, 4, 0 - 2>>, <<32, 0, 0>> }
\* the viewer position offered to UpdateLOD while tasks are in flight: far
\* enough for the root to stay whole
AsyncCameraPositions == { <<32, 0, 0>> }
\* the world centre handed to InitializeOctree (GetActorLocation)
WorldCenter == <<0, 0, 0>>

(***************************************************************************)
(* Small helpers                                                           *)
(***************************************************************************)
RECURSIVE Pow2(_)
Pow2(n) == IF n <= 0 THEN 1 ELSE 2 * Pow2(n - 1)

VecAdd(a, b) == << a[1] + b[1], a[2] + b[2], a[3] + b[3] >>

\* FVector::Dist, squared
DistSquared(a, b) ==
    (a[1] - b[1]) * (a[1] - b[1]) + (a[2] - b[2]) * (a[2] - b[2])
        + (a[3] - b[3]) * (a[3] - b[3])

\* the set of elements of a sequence
Range(s) == { s[i] : i \in DOMAIN s }

\* (i & bit) ? 1 : 0 for bit = 1, 2, 4
BitOf(i, bit) == (i \div bit) % 2

(***************************************************************************)
(* FOctreeKey                                                              *)
(***************************************************************************)
FOctreeKey(level, coords) == [Level |-> level, Coordinates |-> coords]

\* the largest and the smallest int32, and 2^30
Int32Max == 2147483647
Int32Min == (0 - Int32Max) - 1
TwoTo30 == (Int32Max \div 2) + 1

\* a shift that rounds a negative coordinate towards zero, as "/ 2" does
ShiftRight1TowardsZero(c) == (c + (IF c < 0 THEN 1 ELSE 0)) \div 2

\* Coordinates >> 1 : arithmetic shift, i.e. division by two rounded down
ShiftRight1(c) == c \div 2

\* Coordinates << 1 on an int32: 2 * c modulo 2^32, in -2^31 .. 2^31 - 1
ShiftLeft1(c) ==
    IF c >= TwoTo30 THEN 2 * (c - TwoTo30) + Int32Min
    ELSE IF c < 0 - TwoTo30 THEN (2 * (c + TwoTo30) + Int32Max) + 1
    ELSE 2 * c

GetParent(key) ==
    FOctreeKey(key.Level + 1,
               << ShiftRight1(key.Coordinates[1]),
                  ShiftRight1(key.Coordinates[2]),
                  ShiftRight1(key.Coordinates[3]) >>)

\* the offset of child i (0..7): ((i & 1) ? 1 : 0, (i & 2) ? 1 : 0, (i & 4) ? 1 : 0)
ChildOffset(i) == << BitOf(i, 1), BitOf(i, 2), BitOf(i, 4) >>

ChildKey(key, i) ==
    FOctreeKey(key.Level - 1,
               VecAdd(<< ShiftLeft1(key.Coordinates[1]),
                         ShiftLeft1(key.Coordinates[2]),
                         ShiftLeft1(key.Coordinates[3]) >>, ChildOffset(i)))

\* the 8 child keys, in the order of the loop (sequence index i+1 holds child i)
GetChildren(key) == [ j \in 1..8 |-> ChildKey(key, j - 1) ]

(***************************************************************************)
(* FOctreeNode                                                             *)
(***************************************************************************)
NoChildren == [ j \in 1..8 |-> NoIndex ]

\* FOctreeNode(): the default-constructed node, also the value of a cleared slot
DefaultNode ==
    [ Key |-> FOctreeKey(0, <<0, 0, 0>>),
      Center |-> <<0, 0, 0>>,
      Size |-> 0,
      bHasChildren |-> FALSE,
      bIsActive |-> FALSE,
      DistanceFromCameraSq |-> 0,
      Chunk |-> NoChunk,
      ChildIndices |-> NoChildren,
      ParentIndex |-> NoIndex ]

\* FOctreeNode(InKey, InCenter, InSize)
NewNode(key, center, size) ==
    [ DefaultNode EXCEPT !.Key = key, !.Center = center, !.Size = size ]


(***************************************************************************)
(* State                                                                   *)
(***************************************************************************)
VARIABLES
    Nodes,               \* TArray<FOctreeNode>; slot i of the program is Nodes[i+1]
    KeyToNodeIndex,      \* TMap<FOctreeKey, int32>
    RootIndices,         \* TArray<int32>
    Chunks,              \* the live FPlanetChunk objects, by identity
    ActiveTasks,         \* FPlanetAsyncTaskManager::ActiveTasks
    CompletionCallbacks, \* FPlanetAsyncTaskManager::CompletionCallbacks
    Invoked,             \* the completion callbacks invoked so far
    CameraPosition,      \* the viewer position of the latest UpdateLOD call
    lastCall,            \* the latest call of the interface and what it returned
    MaxDepth,            \* UOctreeComponent::MaxDepth
    RootSize,            \* UOctreeComponent::RootSize
    SubdivisionDistance, \* UOctreeComponent::SubdivisionDistance
    TaskManagerCS,       \* FPlanetAsyncTaskManager::TaskManagerCS: the thread holding it
    Callers,             \* per thread, its call of FPlanetAsyncTaskManager in progress
    MeshVisible,         \* APlanetActor::MeshComponentPool: IsVisible() of each component
    ActiveChunkMeshes,   \* APlanetActor::ActiveChunkMeshes: chunk -> component
    PendingChunks,       \* APlanetActor::PendingChunks
    NewActiveChunks,     \* the set NewActiveChunks of the latest UpdateChunkMeshes
    LastCameraPosition,  \* APlanetActor::LastCameraPosition
    LODUpdateTimer,      \* APlanetActor::LODUpdateTimer
    bLODUpdatesEnabled   \* APlanetActor::bLODUpdatesEnabled

\* the configuration of the component: no call of the interface writes it
Configuration == << MaxDepth, RootSize, SubdivisionDistance >>

\* the critical section and the calls in progress
LockState == << TaskManagerCS, Callers >>

\* the members of the planet actor
ActorState == << MeshVisible, ActiveChunkMeshes, PendingChunks, NewActiveChunks,
                 LastCameraPosition, LODUpdateTimer, bLODUpdatesEnabled >>

vars == << Nodes, KeyToNodeIndex, RootIndices, Chunks, ActiveTasks,
           CompletionCallbacks, Invoked, CameraPosition, lastCall,
           Configuration, LockState, ActorState >>

\* the octree as one value: the arena and the key map
Tree(nodes, keymap) == [Nodes |-> nodes, KeyToNodeIndex |-> keymap]

\* Nodes.IsValidIndex(i)
IsValidIndex(nodes, i) == i >= 0 /\ i < Len(nodes)

\* Nodes[i]
NodeAt(nodes, i) == nodes[i + 1]

\* TMap::Add: insert or replace
MapAdd(m, k, v) == [ x \in (DOMAIN m) \cup {k} |-> IF x = k THEN v ELSE m[x] ]
\* a removal that leaves the key in the map
MapRemoveNothing(m, k) == m
\* TMap::Remove
MapRemove(m, k) == [ x \in (DOMAIN m) \ {k} |-> m[x] ]
\* an empty TMap
EmptyMap == [ x \in {} |-> 0 ]

(***************************************************************************)
(* UOctreeComponent::CreateNode                                            *)
(***************************************************************************)
\* appends the node; the new index is the old Nodes.Num()
CreateNode(T, key, center, size, parentIndex) ==
    LET NodeIndex == Len(T.Nodes)
        node == [ NewNode(key, center, size) EXCEPT !.ParentIndex = parentIndex ]
    IN Tree(Append(T.Nodes, node), MapAdd(T.KeyToNodeIndex, key, NodeIndex))

(***************************************************************************)
(* LOD policy: CalculateRequiredChunkSize, ShouldSubdivide, ShouldMerge    *)
(*                                                                         *)
(* RequiredSize = clamp(MinChunkSize * 2^(Distance / SubdivisionDistance), *)
(*                      MinChunkSize, RootSize)                            *)
(* is not an integer.  With e = Distance / SubdivisionDistance and         *)
(* Size = MinChunkSize * 2^k the comparisons of the program are            *)
(*   Size > RequiredSize          <=>  k > clamp(e, 0, MaxDepth)           *)
(*   Size < RequiredSize * Mult   <=>  k - log2(Mult) < clamp(e, 0, MaxDepth) *)
(* which the operators below decide on the squared distance.               *)
(***************************************************************************)
\* float MinChunkSize = RootSize / Pow(2, MaxDepth)
MinChunkSize == RootSize \div Pow2(MaxDepth)

\* k with size = MinChunkSize * 2^k (sizes of nodes are such powers)
RECURSIVE Log2SizeRatio(_)
Log2SizeRatio(size) ==
    IF size <= MinChunkSize THEN 0 ELSE 1 + Log2SizeRatio(size \div 2)

\* CalculateRequiredChunkSize(sqrt(distSq)) < MinChunkSize * 2^k
RequiredSizeBelow(distSq, k) ==
    \/ k > MaxDepth
    \/ /\ k > 0
       /\ distSq < (k * SubdivisionDistance) * (k * SubdivisionDistance)

\* CalculateRequiredChunkSize(sqrt(distSq)) * MergeDistanceMultiplier
\*     > MinChunkSize * 2^k
MergeThresholdAbove(distSq, k) ==
    LET h == 100 * k - Log2MergeMultiplier100
    IN \/ h < 0
       \/ /\ h < 100 * MaxDepth
          /\ distSq * 10000 > (h * SubdivisionDistance) * (h * SubdivisionDistance)

\* CalculateRequiredChunkSize(sqrt(distSq)) == MinChunkSize * 2^k
RequiredSizeEquals(distSq, k) ==
    IF k >= MaxDepth
    THEN k = MaxDepth /\ distSq >= (k * SubdivisionDistance) * (k * SubdivisionDistance)
    ELSE IF k <= 0
         THEN k = 0 /\ distSq = 0
         ELSE distSq = (k * SubdivisionDistance) * (k * SubdivisionDistance)

\* a ShouldSubdivide with the comparison the other way round: Size < RequiredSize
ShouldSubdivideWhenSmaller(node) ==
    IF node.Key.Level <= 0
    THEN FALSE
    ELSE ~RequiredSizeBelow(node.DistanceFromCameraSq, Log2SizeRatio(node.Size))
         /\ ~RequiredSizeEquals(node.DistanceFromCameraSq, Log2SizeRatio(node.Size))

ShouldSubdivide(node) ==
    IF node.Key.Level <= 0
    THEN FALSE
    ELSE RequiredSizeBelow(node.DistanceFromCameraSq, Log2SizeRatio(node.Size))

ShouldMerge(node) ==
    IF ~node.bHasChildren
    THEN FALSE
    ELSE MergeThresholdAbove(node.DistanceFromCameraSq, Log2SizeRatio(node.Size))

(***************************************************************************)
(* UOctreeComponent::SubdivideNode                                         *)
(***************************************************************************)
\* the centre of child i: Center + (+-ChildSize/2 per axis by the bits of i)
ChildCenter(center, childSize, i) ==
    LET half == childSize \div 2
        off(bit) == IF BitOf(i, bit) = 1 THEN half ELSE 0 - half
    IN VecAdd(center, << off(1), off(2), off(4) >>)

\* the loop "for i in 0..7: CreateNode(ChildKeys[i], ChildCenter, ChildSize, NodeIndex)"
RECURSIVE CreateChildren(_, _, _, _)
CreateChildren(T, NodeCopy, NodeIndex, i) ==
    IF i >= 8 THEN T
    ELSE CreateChildren(
             CreateNode(T, GetChildren(NodeCopy.Key)[i + 1],
                        ChildCenter(NodeCopy.Center, NodeCopy.Size \div 2, i),
                        NodeCopy.Size \div 2, NodeIndex),
             NodeCopy, NodeIndex, i + 1)

\* a guard that does not look at the level of the node
SubdivideRejectedIgnoringLevel(T, NodeIndex) ==
    \/ ~IsValidIndex(T.Nodes, NodeIndex)
    \/ NodeAt(T.Nodes, NodeIndex).bHasChildren

\* the guard of SubdivideNode: TRUE when the call returns without effect
SubdivideRejected(T, NodeIndex) ==
    \/ ~IsValidIndex(T.Nodes, NodeIndex)
    \/ NodeAt(T.Nodes, NodeIndex).bHasChildren
    \/ NodeAt(T.Nodes, NodeIndex).Key.Level <= 0

\* an update of the subdivided node that forgets "Node.bIsActive = false"
LinkChildrenStayingActive(node, firstChild) ==
    [ node EXCEPT !.ChildIndices = [ j \in 1..8 |-> firstChild + j - 1 ],
                  !.bHasChildren = TRUE ]

\* the update of the subdivided node once its children exist
LinkChildren(node, firstChild) ==
    [ node EXCEPT !.ChildIndices = [ j \in 1..8 |-> firstChild + j - 1 ],
                  !.bHasChildren = TRUE,
                  !.bIsActive = FALSE ]

SubdivideNode(T, NodeIndex) ==
    IF SubdivideRejected(T, NodeIndex) THEN T
    ELSE LET NodeCopy == NodeAt(T.Nodes, NodeIndex)
             firstChild == Len(T.Nodes)
             T1 == CreateChildren(T, NodeCopy, NodeIndex, 0)
         IN Tree([ T1.Nodes EXCEPT ![NodeIndex + 1] = LinkChildren(@, firstChild) ],
                 T1.KeyToNodeIndex)

(***************************************************************************)
(* UOctreeComponent::MergeNode                                             *)
(***************************************************************************)
\* a reset of the parent that forgets "ChildIndices.Init(-1, 8)"
ResetParentKeepingIndices(node) ==
    [ node EXCEPT !.bHasChildren = FALSE, !.bIsActive = TRUE ]

\* "Reset parent node": ChildIndices.Init(-1, 8); bHasChildren = false; bIsActive = true
ResetParent(node) ==
    [ node EXCEPT !.ChildIndices = NoChildren,
                  !.bHasChildren = FALSE,
                  !.bIsActive = TRUE ]

\* a merge that leaves the slot of a removed child as it was
UnclearedSlot(node) == node

\* "Mark the child node as invalid (clear it)": Nodes[ChildIndex] = FOctreeNode()
ClearedSlot(node) == DefaultNode

RECURSIVE MergeNode(_, _)
RECURSIVE MergeChildren(_, _, _)

\* the loop over Node.ChildIndices, from position j (1..8) on
MergeChildren(T, NodeIndex, j) ==
    IF j > 8 THEN T
    ELSE LET ChildIndex == NodeAt(T.Nodes, NodeIndex).ChildIndices[j]
         IN IF ChildIndex # NoIndex /\ IsValidIndex(T.Nodes, ChildIndex)
            THEN LET T1 == IF NodeAt(T.Nodes, ChildIndex).bHasChildren
                           THEN MergeNode(T, ChildIndex)
                           ELSE T
                     ChildNode == NodeAt(T1.Nodes, ChildIndex)
                     T2 == Tree([ T1.Nodes EXCEPT ![ChildIndex + 1] = ClearedSlot(@) ],
                                MapRemove(T1.KeyToNodeIndex, ChildNode.Key))
                 IN MergeChildren(T2, NodeIndex, j + 1)
            ELSE MergeChildren(T, NodeIndex, j + 1)

\* a guard of MergeNode that looks at the index only
MergeRejectedOnlyInvalidIndex(T, NodeIndex) ==
    ~IsValidIndex(T.Nodes, NodeIndex)

\* the guard of MergeNode: TRUE when the call returns without effect
MergeRejected(T, NodeIndex) ==
    \/ ~IsValidIndex(T.Nodes, NodeIndex)
    \/ ~NodeAt(T.Nodes, NodeIndex).bHasChildren

MergeNode(T, NodeIndex) ==
    IF MergeRejected(T, NodeIndex) THEN T
    ELSE LET T1 == MergeChildren(T, NodeIndex, 1)
         IN Tree([ T1.Nodes EXCEPT ![NodeIndex + 1] = ResetParent(@) ],
                 T1.KeyToNodeIndex)


(***************************************************************************)
(* UNoiseGenerator::SampleDensity                                          *)
(*                                                                         *)
(* A generator is a sphere of radius PlanetRadius around the origin with   *)
(* NoiseAmplitude 0; it is named by PlanetRadius squared.  The lattice of  *)
(* a chunk has step Size / VoxelResolution, so positions are kept          *)
(* multiplied by the resolution r; the density returned is                 *)
(* r^2 * (|p|^2 - PlanetRadius^2), which has the sign of |p| - PlanetRadius.*)
(***************************************************************************)
\* the generators offered to the chunk generation calls
NoiseGenerators == { 25, 10000 }
\* the generators offered to the asynchronous generation calls
AsyncNoiseGenerators == { 25 }

SampleDensity(generator, scaledPos, r) ==
    DistSquared(scaledPos, <<0, 0, 0>>) - generator * r * r

(***************************************************************************)
(* FPlanetChunk                                                            *)
(***************************************************************************)
\* Max(4, BaseResolution >> LODLevel)
GetVoxelResolution(lodLevel) ==
    LET shifted == BaseResolution \div Pow2(lodLevel)
    IN IF shifted > MinVoxelResolution THEN shifted ELSE MinVoxelResolution

\* FPlanetChunk(): a chunk that has not been generated
NewChunk(position, size, lodLevel, distSq) ==
    [ Position |-> position,
      Size |-> size,
      LODLevel |-> lodLevel,
      VoxelResolution |-> GetVoxelResolution(lodLevel),
      Vertices |-> << >>,
      bIsGenerated |-> FALSE,
      bIsGenerating |-> FALSE,
      DistanceFromCameraSq |-> distSq ]

\* FPlanetChunk::ClearMesh
ClearMesh(chunk) == [ chunk EXCEPT !.Vertices = << >>, !.bIsGenerated = FALSE ]

\* the lattice index (X, Y, Z) of flat index n in a cubic lattice of side N
LatticePoint(n, N) == << n % N, (n \div N) % N, n \div (N * N) >>

\* a lattice whose spacing is Size / (VoxelResolution + 1)
ScaledWorldPosOnWiderVoxels(chunk, pt) ==
    LET r == chunk.VoxelResolution
        o(a) == (chunk.Position[a] - chunk.Size \div 2) * r - chunk.Size
        step(a) == (pt[a] * chunk.Size * r) \div (r + 1)
    IN << o(1) + step(1), o(2) + step(2), o(3) + step(3) >>

\* r * WorldPos of lattice point (X, Y, Z):
\* PaddedOrigin = Position - Size/2 - VoxelSize, WorldPos = PaddedOrigin + (X,Y,Z) * VoxelSize
ScaledWorldPos(chunk, pt) ==
    LET r == chunk.VoxelResolution
        o(a) == (chunk.Position[a] - chunk.Size \div 2) * r - chunk.Size
    IN << o(1) + pt[1] * chunk.Size, o(2) + pt[2] * chunk.Size, o(3) + pt[3] * chunk.Size >>

\* FPlanetChunk::GeneratePaddedDensityField: the flat sample array
\* (index X + Y*N + Z*N*N), the padded size and whether both signs occur
GeneratePaddedDensityField(chunk, generator) ==
    LET OutPaddedSize == chunk.VoxelResolution + 2
        TotalVoxels == OutPaddedSize * OutPaddedSize * OutPaddedSize
        field == [ n \in 0..(TotalVoxels - 1) |->
                     SampleDensity(generator,
                                   ScaledWorldPos(chunk, LatticePoint(n, OutPaddedSize)),
                                   chunk.VoxelResolution) ]
        bHasPositive == \E n \in DOMAIN field : field[n] > 0
        bHasNegativeOrZero == \E n \in DOMAIN field : ~(field[n] > 0)
    IN [ DensityField |-> field,
         PaddedSize |-> OutPaddedSize,
         bHasSurface |-> bHasPositive /\ bHasNegativeOrZero ]

(***************************************************************************)
(* FSurfaceNets: the part of the extraction the chunk state depends on     *)
(***************************************************************************)
\* FSurfaceNets::CubeCorners
CubeCorners ==
    << <<0, 0, 0>>, <<1, 0, 0>>, <<0, 1, 0>>, <<1, 1, 0>>,
       <<0, 0, 1>>, <<1, 0, 1>>, <<0, 1, 1>>, <<1, 1, 1>> >>

\* coordinates clamped into the lattice
GetDensityClamped(field, GridSize, x, y, z) ==
    LET Clamp(v) == IF v < 0 THEN 0 ELSE IF v > GridSize - 1 THEN GridSize - 1 ELSE v
    IN field[Clamp(x) + Clamp(y) * GridSize + Clamp(z) * GridSize * GridSize]

\* FSurfaceNets::GetDensity: +1 (exterior) outside the lattice
GetDensity(field, GridSize, x, y, z) ==
    IF x < 0 \/ x >= GridSize \/ y < 0 \/ y >= GridSize \/ z < 0 \/ z >= GridSize
    THEN 1
    ELSE field[x + y * GridSize + z * GridSize * GridSize]

\* FSurfaceNets::ContainsSurface: a corner below zero and a corner not below zero
ContainsSurface(field, GridSize, x, y, z) ==
    LET d(i) == GetDensity(field, GridSize, x + CubeCorners[i][1],
                           y + CubeCorners[i][2], z + CubeCorners[i][3])
    IN (\E i \in 1..8 : d(i) < 0) /\ (\E i \in 1..8 : ~(d(i) < 0))

\* FSurfaceNets::EstimateSurface over the cells of [MinBounds, MaxBounds):
\* one vertex per cell that contains the surface, in the order z, y, x;
\* the vertex is named by its cell
EstimateSurface(field, GridSize, MinBounds, MaxBounds) ==
    LET side == MaxBounds - MinBounds
        cell(n) == << MinBounds + (n % side), MinBounds + ((n \div side) % side),
                      MinBounds + (n \div (side * side)) >>
        order == [ n \in 1..(side * side * side) |-> cell(n - 1) ]
    IN SelectSeq(order, LAMBDA c : ContainsSurface(field, GridSize, c[1], c[2], c[3]))

(***************************************************************************)
(* FPlanetChunk::GenerateMesh                                              *)
(***************************************************************************)
\* a guard that lets a chunk already generated through
GenerateRejectedUnlessGenerated(chunk, generator) ==
    chunk.bIsGenerating \/ generator = NullGenerator

\* the guard: TRUE when the call returns false without touching the chunk
GenerateRejected(chunk, generator) ==
    chunk.bIsGenerating \/ chunk.bIsGenerated \/ generator = NullGenerator

\* "bIsGenerating = true; ClearMesh();"
BeginGenerate(chunk) == ClearMesh([ chunk EXCEPT !.bIsGenerating = TRUE ])

\* the early exit when the padded field has no surface
NoSurfaceExit(chunk) == [ chunk EXCEPT !.bIsGenerating = FALSE ]

\* what the density scan and the extraction of GenerateMesh compute for a chunk:
\* they read only the place of the chunk and the generator
ExtractChunk(place, generator) ==
    LET padded == GeneratePaddedDensityField(place, generator)
    IN [ bHasSurface |-> padded.bHasSurface,
         Vertices |-> IF padded.bHasSurface
                      THEN EstimateSurface(padded.DensityField, padded.PaddedSize,
                                           0, place.VoxelResolution + 1)
                      ELSE << >> ]

\* the place of a chunk
PlaceOf(chunk) ==
    [ Position |-> chunk.Position, Size |-> chunk.Size,
      VoxelResolution |-> chunk.VoxelResolution ]

\* the places of the chunks of a node and of all nodes below it
RECURSIVE NodePlaces(_, _, _)
NodePlaces(center, size, level) ==
    { [ Position |-> center, Size |-> size,
        VoxelResolution |-> GetVoxelResolution(SmallConfiguration.MaxDepth - level) ] }
    \cup (IF level <= 0 THEN {}
          ELSE UNION { NodePlaces(ChildCenter(center, size \div 2, i), size \div 2, level - 1)
                       : i \in 0..7 })

\* ExtractChunk, tabulated once for the chunks the octree can make
ExtractTable ==
    [ place \in NodePlaces(WorldCenter, SmallConfiguration.RootSize, SmallConfiguration.MaxDepth),
      generator \in NoiseGenerators |->
        ExtractChunk(place, generator) ]

\* the rest of GenerateMesh after BeginGenerate: the chunk and the value returned
FinishGenerate(chunk, generator) ==
    LET extracted == ExtractTable[PlaceOf(chunk), generator]
    IN IF ~extracted.bHasSurface
       THEN [ chunk |-> NoSurfaceExit(chunk), ret |-> FALSE ]
       ELSE [ chunk |-> [ chunk EXCEPT !.Vertices = extracted.Vertices,
                                       !.bIsGenerated = TRUE,
                                       !.bIsGenerating = FALSE ],
              ret |-> TRUE ]

\* a GenerateMesh that looks at the generator only after "bIsGenerating = true;
\* ClearMesh();" and then returns
GenerateMeshCheckingGeneratorLate(chunk, generator) ==
    IF chunk.bIsGenerating \/ chunk.bIsGenerated
    THEN [ chunk |-> chunk, ret |-> FALSE ]
    ELSE IF generator = NullGenerator
         THEN [ chunk |-> BeginGenerate(chunk), ret |-> FALSE ]
         ELSE FinishGenerate(BeginGenerate(chunk), generator)

GenerateMesh(chunk, generator) ==
    IF GenerateRejected(chunk, generator)
    THEN [ chunk |-> chunk, ret |-> FALSE ]
    ELSE FinishGenerate(BeginGenerate(chunk), generator)


(***************************************************************************)
(* Chunk objects and their owners                                          *)
(***************************************************************************)
\* the chunks some node slot points to
NodeChunks(nodes) == { nodes[i].Chunk : i \in DOMAIN nodes } \ {NoChunk}

\* the chunks the in-flight tasks point to
TaskChunks(tasks) == { tasks[i].Chunk : i \in DOMAIN tasks }

\* the identity given to a newly made chunk: the first one no owner points to
FreshChunk(used) ==
    CHOOSE n \in 1..(Cardinality(used) + 1) :
        n \notin used /\ \A m \in 1..(n - 1) : m \in used

\* a chunk lives as long as a TSharedPtr points to it
Collect(store, owned) == [ id \in (DOMAIN store) \cap owned |-> store[id] ]

(***************************************************************************)
(* UOctreeComponent::GetOrCreateChunk, UpdateNodeActivity                  *)
(***************************************************************************)
\* S is [Nodes, Chunks]; held are the chunks owned outside the octree

\* a GetOrCreateChunk that makes a new chunk whether or not the node has one
GetOrCreateChunkAlwaysNew(S, NodeIndex, held) ==
    LET Node == NodeAt(S.Nodes, NodeIndex)
        id == FreshChunk(NodeChunks(S.Nodes) \cup held)
        chunk == NewChunk(Node.Center, Node.Size, MaxDepth - Node.Key.Level,
                          Node.DistanceFromCameraSq)
    IN [ Nodes |-> [ S.Nodes EXCEPT ![NodeIndex + 1].Chunk = id ],
         Chunks |-> MapAdd(S.Chunks, id, chunk) ]

GetOrCreateChunk(S, NodeIndex, held) ==
    LET Node == NodeAt(S.Nodes, NodeIndex)
    IN IF Node.Chunk # NoChunk THEN S
       ELSE LET id == FreshChunk(NodeChunks(S.Nodes) \cup held)
                chunk == NewChunk(Node.Center, Node.Size, MaxDepth - Node.Key.Level,
                                  Node.DistanceFromCameraSq)
            IN [ Nodes |-> [ S.Nodes EXCEPT ![NodeIndex + 1].Chunk = id ],
                 Chunks |-> MapAdd(S.Chunks, id, chunk) ]

\* "Node.bIsActive = !Node.bHasChildren"
Activity(node) == [ node EXCEPT !.bIsActive = ~node.bHasChildren ]

\* an UpdateNodeActivity that forgets "Node.Chunk.Reset()" for inactive nodes
UpdateNodeActivityKeepingChunk(S, NodeIndex, held) ==
    IF ~IsValidIndex(S.Nodes, NodeIndex) THEN S
    ELSE LET S1 == [ S EXCEPT !.Nodes[NodeIndex + 1] = Activity(@) ]
         IN IF NodeAt(S1.Nodes, NodeIndex).bIsActive
            THEN GetOrCreateChunk(S1, NodeIndex, held)
            ELSE S1

UpdateNodeActivity(S, NodeIndex, held) ==
    IF ~IsValidIndex(S.Nodes, NodeIndex) THEN S
    ELSE LET S1 == [ S EXCEPT !.Nodes[NodeIndex + 1] = Activity(@) ]
         IN IF NodeAt(S1.Nodes, NodeIndex).bIsActive
            THEN GetOrCreateChunk(S1, NodeIndex, held)
            ELSE [ S1 EXCEPT !.Nodes[NodeIndex + 1].Chunk = NoChunk ]

(***************************************************************************)
(* UOctreeComponent::UpdateLOD                                             *)
(***************************************************************************)
\* the present children of a node, in slot order
PresentChildren(node) == SelectSeq(node.ChildIndices, LAMBDA c : c # NoIndex)

\* the order in which a breadth-first queue started with `queue` hands out nodes
RECURSIVE BreadthFirst(_, _)
BreadthFirst(nodes, queue) ==
    IF queue = << >> THEN << >>
    ELSE LET NodeIndex == Head(queue)
         IN IF ~IsValidIndex(nodes, NodeIndex)
            THEN BreadthFirst(nodes, Tail(queue))
            ELSE << NodeIndex >> \o
                 BreadthFirst(nodes,
                     Tail(queue) \o
                     (IF NodeAt(nodes, NodeIndex).bHasChildren
                      THEN PresentChildren(NodeAt(nodes, NodeIndex)) ELSE << >>))

\* first pass, "Update distance" on every node the queue hands out
RECURSIVE UpdateDistances(_, _, _)
UpdateDistances(nodes, order, camera) ==
    IF order = << >> THEN nodes
    ELSE UpdateDistances(
             [ nodes EXCEPT ![Head(order) + 1].DistanceFromCameraSq =
                   DistSquared(nodes[Head(order) + 1].Center, camera) ],
             Tail(order), camera)

\* first pass, the decision taken for a node
WantsSubdivide(node) ==
    ShouldSubdivide(node) /\ ~node.bHasChildren /\ node.Key.Level > 0
WantsMerge(node) ==
    ~WantsSubdivide(node) /\ ShouldMerge(node) /\ node.bHasChildren

NodesToSubdivide(nodes, order) ==
    SelectSeq(order, LAMBDA i : WantsSubdivide(NodeAt(nodes, i)))
NodesToMerge(nodes, order) ==
    SelectSeq(order, LAMBDA i : WantsMerge(NodeAt(nodes, i)))

\* second pass
RECURSIVE ApplySubdivisions(_, _)
ApplySubdivisions(T, list) ==
    IF list = << >> THEN T
    ELSE ApplySubdivisions(SubdivideNode(T, Head(list)), Tail(list))

RECURSIVE ApplyMerges(_, _)
ApplyMerges(T, list) ==
    IF list = << >> THEN T
    ELSE ApplyMerges(MergeNode(T, Head(list)), Tail(list))

\* a traversal that subdivides a node as soon as it is found to need it
FirstPassSubdividingAtOnce(T, roots, camera) ==
    LET order == BreadthFirst(T.Nodes, roots)
        nodes1 == UpdateDistances(T.Nodes, order, camera)
        T2 == ApplySubdivisions(Tree(nodes1, T.KeyToNodeIndex),
                                NodesToSubdivide(nodes1, order))
    IN [ Nodes |-> T2.Nodes, KeyToNodeIndex |-> T2.KeyToNodeIndex,
         NodesToSubdivide |-> << >>,
         NodesToMerge |-> NodesToMerge(nodes1, order) ]

\* first pass: the octree and the two lists at the end of the traversal
FirstPass(T, roots, camera) ==
    LET order == BreadthFirst(T.Nodes, roots)
        nodes1 == UpdateDistances(T.Nodes, order, camera)
    IN [ Nodes |-> nodes1, KeyToNodeIndex |-> T.KeyToNodeIndex,
         NodesToSubdivide |-> NodesToSubdivide(nodes1, order),
         NodesToMerge |-> NodesToMerge(nodes1, order) ]

\* third pass
RECURSIVE ApplyActivity(_, _, _)
ApplyActivity(S, list, held) ==
    IF list = << >> THEN S
    ELSE ApplyActivity(UpdateNodeActivity(S, Head(list), held), Tail(list), held)

\* the passes with the merge loop run before the subdivide loop
LODPassesMergingFirst(nodes, keymap, roots, store, held, camera) ==
    LET P == FirstPass(Tree(nodes, keymap), roots, camera)
        T2 == ApplyMerges(Tree(P.Nodes, P.KeyToNodeIndex), P.NodesToMerge)
        T3 == ApplySubdivisions(T2, P.NodesToSubdivide)
        S4 == ApplyActivity([ Nodes |-> T3.Nodes, Chunks |-> store ],
                            BreadthFirst(T3.Nodes, roots), held)
    IN [ Nodes |-> S4.Nodes, KeyToNodeIndex |-> T3.KeyToNodeIndex,
         Chunks |-> Collect(S4.Chunks, NodeChunks(S4.Nodes) \cup held) ]

\* the three passes; the result is the octree and the chunk store
LODPasses(nodes, keymap, roots, store, held, camera) ==
    LET P == FirstPass(Tree(nodes, keymap), roots, camera)
        T2 == ApplySubdivisions(Tree(P.Nodes, P.KeyToNodeIndex), P.NodesToSubdivide)
        T3 == ApplyMerges(T2, P.NodesToMerge)
        S4 == ApplyActivity([ Nodes |-> T3.Nodes, Chunks |-> store ],
                            BreadthFirst(T3.Nodes, roots), held)
    IN [ Nodes |-> S4.Nodes, KeyToNodeIndex |-> T3.KeyToNodeIndex,
         Chunks |-> Collect(S4.Chunks, NodeChunks(S4.Nodes) \cup held) ]

\* UOctreeComponent::GetActiveChunks: in arena order
RECURSIVE GetActiveChunks(_)
GetActiveChunks(nodes) ==
    IF nodes = << >> THEN << >>
    ELSE (IF Head(nodes).bIsActive /\ Head(nodes).Chunk # NoChunk
          THEN << Head(nodes).Chunk >> ELSE << >>)
         \o GetActiveChunks(Tail(nodes))

(***************************************************************************)
(* Initial state and the calls of the octree component                     *)
(***************************************************************************)
\* arg is the noise generator of a generation call, the node index of a
\* SubdivideNode or MergeNode call, the lists recorded by the first pass of an
\* UpdateLOD call, 0 for the other calls
Call(op, chunk, arg, ret) == [ op |-> op, chunk |-> chunk, arg |-> arg, ret |-> ret ]

\* a camera position that no UpdateLOD call has been made with
NoCamera == << >>

\* the threads that call FPlanetAsyncTaskManager
Threads == { "T1", "T2" }
\* the owner of a free critical section
NoThread == "none"
\* a thread that is in no call of FPlanetAsyncTaskManager
Idle == [ fn |-> "none", pc |-> 0, Chunk |-> NoChunk, NoiseGenerator |-> NullGenerator,
          OnComplete |-> NoCallback ]

\* the members set to a configuration before InitializeOctree
Configured(c) ==
    /\ MaxDepth = c.MaxDepth
    /\ RootSize = c.RootSize
    /\ SubdivisionDistance = c.SubdivisionDistance

\* the task manager before any call
NoTasks ==
    /\ ActiveTasks = << >>
    /\ CompletionCallbacks = << >>
    /\ Invoked = {}
    /\ TaskManagerCS = NoThread
    /\ Callers = [ t \in Threads |-> Idle ]

\* APlanetActor::APlanetActor and the member initialisers: the pool of
\* components, none visible, and nothing mapped or pending
ActorConstructed ==
    /\ MeshVisible = [ c \in 1..ActorConfiguration.PoolSize |-> FALSE ]
    /\ ActiveChunkMeshes = EmptyMap
    /\ PendingChunks = << >>
    /\ NewActiveChunks = {}
    /\ LastCameraPosition = << 0, 0, 0 >>
    /\ LODUpdateTimer = 0
    /\ bLODUpdatesEnabled = TRUE

\* the component after construction
Constructed ==
    /\ Nodes = << >>
    /\ KeyToNodeIndex = EmptyMap
    /\ RootIndices = << >>
    /\ Chunks = EmptyMap
    /\ CameraPosition = NoCamera
    /\ lastCall = Call("construct", NoChunk, 0, TRUE)

Init == Constructed /\ NoTasks /\ Configured(SmallConfiguration) /\ ActorConstructed

\* the root node added without ClearOctree
InitializeOctreeWithoutClear ==
    LET T == CreateNode(Tree(Nodes, KeyToNodeIndex), FOctreeKey(MaxDepth, <<0, 0, 0>>),
                        WorldCenter, RootSize, NoIndex)
    IN /\ Nodes' = T.Nodes
       /\ KeyToNodeIndex' = T.KeyToNodeIndex
       /\ RootIndices' = Append(RootIndices, Len(Nodes))
       /\ Chunks' = Chunks
       /\ lastCall' = Call("InitializeOctree", NoChunk, 0, TRUE)
       /\ UNCHANGED << ActiveTasks, CompletionCallbacks, Invoked, CameraPosition,
                       Configuration, ActorState, LockState >>

\* ClearOctree, then the root node
InitializeOctree ==
    LET T == CreateNode(Tree(<< >>, EmptyMap), FOctreeKey(MaxDepth, <<0, 0, 0>>),
                        WorldCenter, RootSize, NoIndex)
    IN /\ Nodes' = T.Nodes
       /\ KeyToNodeIndex' = T.KeyToNodeIndex
       /\ RootIndices' = << 0 >>
       /\ Chunks' = Collect(Chunks, TaskChunks(ActiveTasks))
       /\ lastCall' = Call("InitializeOctree", NoChunk, 0, TRUE)
       /\ UNCHANGED << ActiveTasks, CompletionCallbacks, Invoked, CameraPosition,
                       Configuration, ActorState, LockState >>

\* the two lists the first pass of an UpdateLOD call ends with
Recorded(nodes, keymap, roots, camera) ==
    LET P == FirstPass(Tree(nodes, keymap), roots, camera)
    IN [ NodesToSubdivide |-> P.NodesToSubdivide, NodesToMerge |-> P.NodesToMerge ]

\* cap bounds the arena: the call is left out where it would grow it further
UpdateLOD(camera, cap) ==
    /\ Len(Nodes) + 8 * Len(NodesToSubdivide(
            UpdateDistances(Nodes, BreadthFirst(Nodes, RootIndices), camera),
            BreadthFirst(Nodes, RootIndices))) <= cap
    /\ IF Len(RootIndices) = 0
       THEN UNCHANGED << Nodes, KeyToNodeIndex, Chunks >>
       ELSE LET R == LODPasses(Nodes, KeyToNodeIndex, RootIndices, Chunks,
                               TaskChunks(ActiveTasks), camera)
            IN /\ Nodes' = R.Nodes
               /\ KeyToNodeIndex' = R.KeyToNodeIndex
               /\ Chunks' = R.Chunks
    /\ CameraPosition' = camera
    /\ lastCall' = Call("UpdateLOD", NoChunk, Recorded(Nodes, KeyToNodeIndex, RootIndices, camera), TRUE)
    /\ UNCHANGED << RootIndices, ActiveTasks, CompletionCallbacks, Invoked,
                    Configuration, ActorState, LockState >>

OctreeNext ==
    \/ InitializeOctree
    \/ \E camera \in CameraPositions : UpdateLOD(camera, MaxNodes)

OctreeSpec == Init /\ [][OctreeNext]_vars


(***************************************************************************)
(* Chunk generation by the caller of the octree: the synchronous call      *)
(* FPlanetChunk::GenerateMesh and FPlanetAsyncTaskManager.                 *)
(*                                                                         *)
(* A task is [Chunk, NoiseGenerator, state]; state is "queued" until a     *)
(* pool thread starts DoWork, "working" inside Chunk->GenerateMesh and     *)
(* "done" once DoWork has returned (IsDone()).                             *)
(***************************************************************************)
\* the completion callbacks offered to GenerateChunkAsync
Callbacks == { NoCallback, "OnComplete" }

\* the chunks the caller asks to generate
Callable(limit) == { id \in DOMAIN Chunks : id <= limit }

\* the game thread calls Chunk->GenerateMesh(NoiseGenerator)
GenerateMeshCall(id, generator) ==
    LET r == GenerateMesh(Chunks[id], generator)
    IN /\ Chunks' = [ Chunks EXCEPT ![id] = r.chunk ]
       /\ lastCall' = Call("GenerateMesh", id, generator, r.ret)
       /\ UNCHANGED << Nodes, KeyToNodeIndex, RootIndices, ActiveTasks,
                       CompletionCallbacks, Invoked, CameraPosition,
                       Configuration, ActorState, LockState >>

\* "Chunk->bIsGenerating = true" in GenerateChunkAsync
MarkGenerating(chunk) == [ chunk EXCEPT !.bIsGenerating = TRUE ]

\* FPlanetAsyncTaskManager::GenerateChunkAsync
GenerateChunkAsync(id, generator, OnComplete) ==
    /\ Len(ActiveTasks) < MaxTasks
    /\ IF generator = NullGenerator
       THEN /\ lastCall' = Call("GenerateChunkAsync", id, generator, FALSE)
            /\ UNCHANGED << Chunks, ActiveTasks, CompletionCallbacks >>
       ELSE /\ Chunks' = [ Chunks EXCEPT ![id] = MarkGenerating(@) ]
            /\ ActiveTasks' = Append(ActiveTasks,
                   [ Chunk |-> id, NoiseGenerator |-> generator, state |-> "queued" ])
            /\ CompletionCallbacks' = Append(CompletionCallbacks, OnComplete)
            /\ lastCall' = Call("GenerateChunkAsync", id, generator, TRUE)
    /\ UNCHANGED << Nodes, KeyToNodeIndex, RootIndices, Invoked, CameraPosition,
                    Configuration, ActorState >>

\* FPlanetChunkGenerationTask::DoWork, up to the guard of Chunk->GenerateMesh
\* and its "bIsGenerating = true; ClearMesh()"
DoWorkBegin(i) ==
    /\ ActiveTasks[i].state = "queued"
    /\ LET id == ActiveTasks[i].Chunk
       IN IF GenerateRejected(Chunks[id], ActiveTasks[i].NoiseGenerator)
          THEN /\ ActiveTasks' = [ ActiveTasks EXCEPT ![i].state = "done" ]
               /\ UNCHANGED Chunks
          ELSE /\ ActiveTasks' = [ ActiveTasks EXCEPT ![i].state = "working" ]
               /\ Chunks' = [ Chunks EXCEPT ![id] = BeginGenerate(@) ]
    /\ lastCall' = Call("DoWork", ActiveTasks[i].Chunk, ActiveTasks[i].NoiseGenerator, FALSE)
    /\ UNCHANGED << Nodes, KeyToNodeIndex, RootIndices, CompletionCallbacks,
                    Invoked, CameraPosition, Configuration, ActorState, LockState >>

\* the rest of Chunk->GenerateMesh, then "bIsComplete = true"
DoWorkEnd(i) ==
    /\ ActiveTasks[i].state = "working"
    /\ LET id == ActiveTasks[i].Chunk
           r == FinishGenerate(Chunks[id], ActiveTasks[i].NoiseGenerator)
       IN /\ Chunks' = [ Chunks EXCEPT ![id] = r.chunk ]
          /\ lastCall' = Call("DoWork", id, ActiveTasks[i].NoiseGenerator, r.ret)
    /\ ActiveTasks' = [ ActiveTasks EXCEPT ![i].state = "done" ]
    /\ UNCHANGED << Nodes, KeyToNodeIndex, RootIndices, CompletionCallbacks,
                    Invoked, CameraPosition, Configuration, ActorState, LockState >>

\* "CompletedChunk->bIsGenerating = false"
RetireChunk(chunk) == [ chunk EXCEPT !.bIsGenerating = FALSE ]

\* an invocation that takes the callback at the front of the list
InvokeFirstCallback(P, i) ==
    IF 1 <= Len(P.Callbacks) /\ P.Callbacks[1] # NoCallback
    THEN P.Invoked \cup { << P.Callbacks[1], P.Tasks[i].Chunk >> }
    ELSE P.Invoked

\* "if (i < CompletionCallbacks.Num() && CompletionCallbacks[i])
\*      CompletionCallbacks[i](CompletedChunk)"
InvokeCallback(P, i) ==
    IF i <= Len(P.Callbacks) /\ P.Callbacks[i] # NoCallback
    THEN P.Invoked \cup { << P.Callbacks[i], P.Tasks[i].Chunk >> }
    ELSE P.Invoked

\* the loop of ProcessCompletedTasks from position i down to 1;
\* P is [Tasks, Callbacks, Chunks, Invoked]
RECURSIVE RetireFrom(_, _)
RetireFrom(P, i) ==
    IF i < 1 THEN P
    ELSE IF P.Tasks[i].state = "done"
         THEN LET id == P.Tasks[i].Chunk
                  without(q) == SubSeq(q, 1, i - 1) \o SubSeq(q, i + 1, Len(q))
              IN RetireFrom(
                     [ Tasks |-> without(P.Tasks),
                       Callbacks |-> without(P.Callbacks),
                       Chunks |-> [ P.Chunks EXCEPT ![id] = RetireChunk(@) ],
                       Invoked |-> InvokeCallback(P, i) ],
                     i - 1)
         ELSE RetireFrom(P, i - 1)

\* FPlanetAsyncTaskManager::ProcessCompletedTasks
ProcessCompletedTasks ==
    LET P == RetireFrom([ Tasks |-> ActiveTasks, Callbacks |-> CompletionCallbacks,
                          Chunks |-> Chunks, Invoked |-> Invoked ], Len(ActiveTasks))
    IN /\ ActiveTasks' = P.Tasks
       /\ CompletionCallbacks' = P.Callbacks
       /\ Invoked' = P.Invoked
       /\ Chunks' = Collect(P.Chunks, NodeChunks(Nodes) \cup TaskChunks(P.Tasks))
       /\ lastCall' = Call("ProcessCompletedTasks", NoChunk, 0, TRUE)
       /\ UNCHANGED << Nodes, KeyToNodeIndex, RootIndices, CameraPosition,
                       Configuration, ActorState >>

\* EnsureCompletion: the caller waits until DoWork of the task has returned
RECURSIVE EnsureCompletion(_, _, _)
EnsureCompletion(store, tasks, i) ==
    IF i > Len(tasks) THEN store
    ELSE LET id == tasks[i].Chunk
             chunk == store[id]
             after ==
                 IF tasks[i].state = "done" THEN chunk
                 ELSE IF tasks[i].state = "working"
                      THEN FinishGenerate(chunk, tasks[i].NoiseGenerator).chunk
                      ELSE GenerateMesh(chunk, tasks[i].NoiseGenerator).chunk
         IN EnsureCompletion([ store EXCEPT ![id] = after ], tasks, i + 1)

\* FPlanetAsyncTaskManager::ClearAllTasks
ClearAllTasks ==
    /\ ActiveTasks' = << >>
    /\ CompletionCallbacks' = << >>
    /\ Chunks' = Collect(EnsureCompletion(Chunks, ActiveTasks, 1), NodeChunks(Nodes))
    /\ lastCall' = Call("ClearAllTasks", NoChunk, 0, TRUE)
    /\ UNCHANGED << Nodes, KeyToNodeIndex, RootIndices, Invoked, CameraPosition,
                    Configuration, ActorState >>

\* the octree and its caller generating chunks on the game thread
SyncNext ==
    \E id \in Callable(MaxGenChunks), generator \in NoiseGenerators \cup {NullGenerator} :
        GenerateMeshCall(id, generator)

Next == OctreeNext \/ SyncNext

Spec == Init /\ [][Next]_vars

\* a call of the task manager that finds TaskManagerCS free and runs from its
\* FScopeLock to its return with no other thread in between
Uncontended == TaskManagerCS = NoThread /\ UNCHANGED LockState

\* the octree, initialised once, and its caller generating chunks through the
\* task manager
AsyncNext ==
    \/ Nodes = << >> /\ InitializeOctree
    \/ \E camera \in AsyncCameraPositions : UpdateLOD(camera, MaxNodes)
    \/ \E id \in Callable(MaxAsyncChunks),
          generator \in AsyncNoiseGenerators \cup {NullGenerator} :
           GenerateMeshCall(id, generator)
    \/ \E id \in Callable(MaxAsyncChunks),
          generator \in AsyncNoiseGenerators \cup {NullGenerator},
          OnComplete \in Callbacks :
           GenerateChunkAsync(id, generator, OnComplete) /\ Uncontended
    \/ \E i \in DOMAIN ActiveTasks : DoWorkBegin(i)
    \/ \E i \in DOMAIN ActiveTasks : DoWorkEnd(i)
    \/ ProcessCompletedTasks /\ Uncontended
    \/ ClearAllTasks /\ Uncontended

AsyncSpec == Init /\ [][AsyncNext]_vars

(***************************************************************************)
(* Properties of the octree                                                *)
(***************************************************************************)
\* the nodes the traversal of UpdateLOD reaches from the roots
LiveNodes == Range(BreadthFirst(Nodes, RootIndices))

\* the shape of the tree: the keys of the live nodes, and which of them are split
Structure(nodes, roots) ==
    { << nodes[i + 1].Key, nodes[i + 1].bHasChildren >> :
        i \in Range(BreadthFirst(nodes, roots)) }

\* a live node sits exactly at the distance where RequiredSize == Node.Size
AtRequiredSize ==
    \E i \in LiveNodes :
        RequiredSizeEquals(DistSquared(Nodes[i + 1].Center, CameraPosition),
                           Log2SizeRatio(Nodes[i + 1].Size))

\* C1: when a live node is at the viewer distance where requiredSize equals
\* its size, an UpdateLOD call that repeats the previous call's viewer position
\* subdivides and merges nothing: the shape of the tree stays as it is.
C1_Hysteresis ==
    [][ ( /\ lastCall.op = "UpdateLOD"
          /\ lastCall'.op = "UpdateLOD"
          /\ CameraPosition' = CameraPosition
          /\ AtRequiredSize )
        => Structure(Nodes', RootIndices') = Structure(Nodes, RootIndices) ]_vars

\* C2: right after InitializeOctree and right after every UpdateLOD, every live
\* node is active iff it is a leaf, and holds a chunk iff it is active.
C2_ActiveIffLeaf ==
    lastCall.op \in { "InitializeOctree", "UpdateLOD" } =>
        \A i \in LiveNodes :
            /\ Nodes[i + 1].bIsActive <=> ~Nodes[i + 1].bHasChildren
            /\ (Nodes[i + 1].Chunk # NoChunk) <=> Nodes[i + 1].bIsActive

\* the number of child slots of a node that hold an index
ChildCount(node) == Cardinality({ j \in 1..8 : node.ChildIndices[j] # NoIndex })

\* C3: in every reachable state every live node has bHasChildren set iff all 8
\* of its child slots hold an index, and never holds between 1 and 7 children.
C3_AllOrNoChildren ==
    \A i \in LiveNodes :
        /\ Nodes[i + 1].bHasChildren <=> ChildCount(Nodes[i + 1]) = 8
        /\ ChildCount(Nodes[i + 1]) \in { 0, 8 }

\* C3's case: the tree holds a split node and a node whose children were merged away
C3_Witness ==
    /\ \E i \in LiveNodes : Nodes[i + 1].bHasChildren
    /\ \E i \in LiveNodes :
          /\ ~Nodes[i + 1].bHasChildren
          /\ \E j \in DOMAIN Nodes : Nodes[j] = DefaultNode

\* the chunks held by the live nodes that are active leaves
ActiveLeafChunks ==
    { Nodes[i + 1].Chunk :
        i \in { n \in LiveNodes : Nodes[n + 1].bIsActive /\ ~Nodes[n + 1].bHasChildren } }
    \ { NoChunk }

\* C4 as the specification states it: GetActiveChunks returns exactly the
\* chunks of the active leaves whose generation has completed.
C4_OnlyGenerated ==
    Range(GetActiveChunks(Nodes)) =
        { id \in ActiveLeafChunks : Chunks[id].bIsGenerated /\ ~Chunks[id].bIsGenerating }

\* C4: GetActiveChunks returns, each once, exactly the chunks held by the
\* active leaves of the tree, whether or not their generation has completed,
\* and every chunk it returns exists.
C4_ActiveLeafChunks ==
    /\ Range(GetActiveChunks(Nodes)) = ActiveLeafChunks
    /\ Len(GetActiveChunks(Nodes)) = Cardinality(ActiveLeafChunks)
    /\ ActiveLeafChunks \subseteq DOMAIN Chunks

\* C4's case: after merges left cleared slots in the arena, GetActiveChunks
\* returns a generated chunk and one not generated yet
C4_Witness ==
    /\ \E j \in DOMAIN Nodes : Nodes[j] = DefaultNode
    /\ \E id \in Range(GetActiveChunks(Nodes)) : Chunks[id].bIsGenerated
    /\ \E id \in Range(GetActiveChunks(Nodes)) : ~Chunks[id].bIsGenerated


(***************************************************************************)
(* Properties of chunk generation                                          *)
(*                                                                         *)
(* In a step that changes the state, lastCall' names the call that made    *)
(* the step, and the unprimed variables are the state the call found.      *)
(***************************************************************************)
\* the chunk the call of this step is made on, as the call finds it
CalledChunk == Chunks[lastCall'.chunk]

\* C5: a GenerateChunkAsync call on a chunk that a task in flight already
\* generates starts no second task, registers no second callback and leaves
\* the chunk as it is.
C5_AtMostOnce ==
    [][ ( /\ lastCall'.op = "GenerateChunkAsync"
          /\ lastCall'.arg # NullGenerator
          /\ \E i \in DOMAIN ActiveTasks : ActiveTasks[i].Chunk = lastCall'.chunk )
        => /\ ActiveTasks' = ActiveTasks
           /\ CompletionCallbacks' = CompletionCallbacks
           /\ Chunks' = Chunks ]_vars

C7_NoSurfaceMarksGenerated ==
    [][ ( /\ lastCall'.op = "GenerateMesh"
          /\ ~GenerateRejected(CalledChunk, lastCall'.arg)
          /\ ~GeneratePaddedDensityField(CalledChunk, lastCall'.arg).bHasSurface )
        => /\ Chunks'[lastCall'.chunk].bIsGenerated
           /\ Chunks'[lastCall'.chunk].Vertices = << >>
           /\ ~Chunks'[lastCall'.chunk].bIsGenerating
           /\ lastCall'.ret = FALSE ]_vars

\* C8: a GenerateMesh call with no generator returns false and changes neither
\* the mesh nor the flags of any chunk, so that a chunk neither generating nor
\* generated before the call is still let in with every valid generator after it.
C8_NullGeneratorNoOp ==
    [][ ( /\ lastCall'.op = "GenerateMesh"
          /\ lastCall'.arg = NullGenerator )
        => /\ lastCall'.ret = FALSE
           /\ Chunks' = Chunks
           /\ ~(CalledChunk.bIsGenerating \/ CalledChunk.bIsGenerated)
                => \A generator \in NoiseGenerators :
                       ~GenerateRejected(Chunks'[lastCall'.chunk], generator) ]_vars

\* C8's case: GenerateMesh with no generator has returned false on a chunk that
\* is neither generating nor generated
C8_Witness ==
    /\ lastCall.op = "GenerateMesh"
    /\ lastCall.arg = NullGenerator
    /\ lastCall.ret = FALSE
    /\ lastCall.chunk \in DOMAIN Chunks
    /\ ~Chunks[lastCall.chunk].bIsGenerating
    /\ ~Chunks[lastCall.chunk].bIsGenerated


(***************************************************************************)
(* FOctreeKey::GetParent and GetChildren, applied to keys of any place     *)
(*                                                                         *)
(* lastCall holds the key the calls started from (arg) and what the calls  *)
(* made so far returned (ret); op names the calls made.                    *)
(***************************************************************************)
\* the coordinates the keys are drawn from: around zero and at the ends of
\* the range in which a coordinate can be doubled
KeyCoordinates ==
    { Int32Min, (0 - TwoTo30) - 1, 0 - TwoTo30, 0 - 3, 0 - 1,
      0, 1, 2, TwoTo30 - 1, TwoTo30, Int32Max }

KeyLevels == 0..SmallConfiguration.MaxDepth

Keys ==
    { FOctreeKey(level, << x, y, z >>) :
        level \in KeyLevels, x \in KeyCoordinates, y \in {0 - 1, 0, TwoTo30}, z \in {0 - 3, 1} }

KeyInit ==
    /\ Nodes = << >>
    /\ KeyToNodeIndex = EmptyMap
    /\ RootIndices = << >>
    /\ Chunks = EmptyMap
    /\ CameraPosition = NoCamera
    /\ NoTasks
    /\ Configured(SmallConfiguration) /\ ActorConstructed
    /\ \E key \in Keys : lastCall = Call("FOctreeKey", NoChunk, key, key)

KeyCall(op, ret) ==
    /\ lastCall' = Call(op, NoChunk, lastCall.arg, ret)
    /\ UNCHANGED << Nodes, KeyToNodeIndex, RootIndices, Chunks, ActiveTasks,
                    CompletionCallbacks, Invoked, CameraPosition,
                    Configuration, ActorState, LockState >>

\* Key.GetParent()
GetParentCall ==
    /\ lastCall.op = "FOctreeKey"
    /\ KeyCall("GetParent", GetParent(lastCall.ret))

\* Key.GetParent().GetChildren()
GetChildrenOfParentCall ==
    /\ lastCall.op = "GetParent"
    /\ KeyCall("GetParent.GetChildren", GetChildren(lastCall.ret))

\* Key.GetChildren()
GetChildrenCall ==
    /\ lastCall.op = "FOctreeKey"
    /\ KeyCall("GetChildren", GetChildren(lastCall.ret))

\* Child.GetParent() for each Child of Key.GetChildren()
GetParentOfChildrenCall ==
    /\ lastCall.op = "GetChildren"
    /\ KeyCall("GetChildren.GetParent",
               [ Children |-> lastCall.ret,
                 Parents |-> [ j \in 1..8 |-> GetParent(lastCall.ret[j]) ] ])

KeyNext ==
    \/ GetParentCall
    \/ GetChildrenOfParentCall
    \/ GetChildrenCall
    \/ GetParentOfChildrenCall

KeySpec == KeyInit /\ [][KeyNext]_vars

\* the children of the key have the key as parent and differ from each other
ChildrenRoundTrip ==
    /\ \A j \in 1..8 : lastCall.ret.Parents[j] = lastCall.arg
    /\ \A i, j \in 1..8 : i # j => lastCall.ret.Children[i] # lastCall.ret.Children[j]

\* every coordinate of the key can be doubled within an int32
Doubles(key) ==
    \A a \in 1..3 :
        key.Coordinates[a] >= 0 - TwoTo30 /\ key.Coordinates[a] < TwoTo30

\* C9 as the specification states it: for any key k, GetChildren(GetParent(k))
\* contains k; for any key k with level > 0, the 8 keys of GetChildren(k) have
\* GetParent equal to k and are pairwise distinct.
C9_RoundTripAnyKey ==
    /\ lastCall.op = "GetParent.GetChildren"
           => \E j \in 1..8 : lastCall.ret[j] = lastCall.arg
    /\ (lastCall.op = "GetChildren.GetParent" /\ lastCall.arg.Level > 0)
           => ChildrenRoundTrip

\* C9: for any key k, GetChildren(GetParent(k)) contains k; for any key k with
\* level > 0 whose coordinates all lie in -2^30 .. 2^30 - 1, the 8 keys of
\* GetChildren(k) have GetParent equal to k and are pairwise distinct.
C9_RoundTripWhereDoubling ==
    /\ lastCall.op = "GetParent.GetChildren"
           => \E j \in 1..8 : lastCall.ret[j] = lastCall.arg
    /\ (lastCall.op = "GetChildren.GetParent" /\ lastCall.arg.Level > 0
            /\ Doubles(lastCall.arg))
           => ChildrenRoundTrip

\* C9's case: the parents of the children of a key with level > 0 have been
\* taken, the key having a negative odd coordinate and one at the end of the range
C9_Witness ==
    /\ lastCall.op = "GetChildren.GetParent"
    /\ lastCall.arg.Level > 0
    /\ lastCall.arg.Coordinates[1] = TwoTo30 - 1
    /\ lastCall.arg.Coordinates[3] = 0 - 3
    /\ ChildrenRoundTrip

(***************************************************************************)
(* SubdivideNode and MergeNode called one by one, on any index             *)
(***************************************************************************)
\* the viewer positions of this specification
OpsCameraPositions == { <<1, 1, 1>>, <<32, 0, 0>> }

\* SubdivideNode(NodeIndex); ret tells whether the guard let the call in
SubdivideNodeCall(NodeIndex) ==
    LET T == SubdivideNode(Tree(Nodes, KeyToNodeIndex), NodeIndex)
    IN /\ Len(T.Nodes) <= MaxOpsNodes
       /\ Nodes' = T.Nodes
       /\ KeyToNodeIndex' = T.KeyToNodeIndex
       /\ lastCall' = Call("SubdivideNode", NoChunk, NodeIndex,
                           ~SubdivideRejected(Tree(Nodes, KeyToNodeIndex), NodeIndex))
       /\ UNCHANGED << RootIndices, Chunks, ActiveTasks, CompletionCallbacks,
                       Invoked, CameraPosition, Configuration, ActorState, LockState >>

\* MergeNode(NodeIndex); ret tells whether the guard let the call in
MergeNodeCall(NodeIndex) ==
    LET T == MergeNode(Tree(Nodes, KeyToNodeIndex), NodeIndex)
    IN /\ Nodes' = T.Nodes
       /\ KeyToNodeIndex' = T.KeyToNodeIndex
       /\ Chunks' = Collect(Chunks, NodeChunks(T.Nodes) \cup TaskChunks(ActiveTasks))
       /\ lastCall' = Call("MergeNode", NoChunk, NodeIndex,
                           ~MergeRejected(Tree(Nodes, KeyToNodeIndex), NodeIndex))
       /\ UNCHANGED << RootIndices, ActiveTasks, CompletionCallbacks,
                       Invoked, CameraPosition, Configuration, ActorState, LockState >>

OpsNext ==
    \/ InitializeOctree
    \/ \E camera \in OpsCameraPositions : UpdateLOD(camera, MaxOpsNodes)
    \/ \E NodeIndex \in (0 - 1)..Len(Nodes) : SubdivideNodeCall(NodeIndex)
    \/ \E NodeIndex \in (0 - 1)..Len(Nodes) : MergeNodeCall(NodeIndex)

OpsSpec == Init /\ [][OpsNext]_vars

\* the node a call of this step is made on is one SubdivideNode returns from
\* at once: no such slot, a node with children, or a node of level 0 or below
NotSubdividable ==
    \/ ~IsValidIndex(Nodes, lastCall'.arg)
    \/ NodeAt(Nodes, lastCall'.arg).bHasChildren
    \/ NodeAt(Nodes, lastCall'.arg).Key.Level <= 0

\* C10: SubdivideNode on a node of level 0 or on a node that has children
\* changes nothing of the tree (arena, key map, roots) and of the chunks, so
\* that only a leaf of level > 0 is ever split and no live node has a level
\* below 0.
C10_SubdivideOnlyAboveLevelZero ==
    /\ [](\A i \in LiveNodes : Nodes[i + 1].Key.Level >= 0)
    /\ [][ (lastCall'.op = "SubdivideNode" /\ NotSubdividable)
           => UNCHANGED << Nodes, KeyToNodeIndex, RootIndices, Chunks >> ]_vars

\* C10's case: SubdivideNode has been called on a live node of level 0 and
\* has returned at once
C10_Witness ==
    /\ lastCall.op = "SubdivideNode"
    /\ lastCall.ret = FALSE
    /\ lastCall.arg \in LiveNodes
    /\ Nodes[lastCall.arg + 1].Key.Level = 0
    /\ ~Nodes[lastCall.arg + 1].bHasChildren



(***************************************************************************)
(* The tree operations taken one by one (OpsSpec)                          *)
(***************************************************************************)
\* the node a direct SubdivideNode or MergeNode call is made on, before the call
CalledNode == NodeAt(Nodes, lastCall'.arg)

\* C11: MergeNode on a node without children returns without changing the
\* arena, the key map, the roots or the chunks.
C11_MergeLeafNoOp ==
    [][ ( /\ lastCall'.op = "MergeNode"
          /\ IsValidIndex(Nodes, lastCall'.arg)
          /\ ~CalledNode.bHasChildren )
        => UNCHANGED << Nodes, KeyToNodeIndex, RootIndices, Chunks >> ]_vars

\* MergeNode has returned from a live leaf that was not active
C11_Witness ==
    /\ lastCall.op = "MergeNode"
    /\ ~lastCall.ret
    /\ lastCall.arg \in LiveNodes
    /\ ~NodeAt(Nodes, lastCall.arg).bHasChildren
    /\ ~NodeAt(Nodes, lastCall.arg).bIsActive


\* the arena indices below a node: its children, their children, and so on
RECURSIVE Descendants(_, _)
Descendants(nodes, NodeIndex) ==
    LET children == { c \in Range(NodeAt(nodes, NodeIndex).ChildIndices) :
                          c # NoIndex /\ IsValidIndex(nodes, c) }
    IN children \cup UNION { Descendants(nodes, c) : c \in children }

ClearedSlots == { i \in 0..(Len(Nodes) - 1) : NodeAt(Nodes, i) = DefaultNode }

\* C12: MergeNode on a node with children removes the key of every descendant
\* from the key map and clears every descendant slot in place; the node ends
\* with no child index, bHasChildren false and bIsActive true; every other
\* slot of the arena and every other entry of the key map is as it was.
C12_MergeEffects ==
    [][ ( /\ lastCall'.op = "MergeNode"
          /\ IsValidIndex(Nodes, lastCall'.arg)
          /\ CalledNode.bHasChildren )
        => LET D == Descendants(Nodes, lastCall'.arg)
           IN /\ Len(Nodes') = Len(Nodes)
              /\ \A d \in D : /\ NodeAt(Nodes', d) = DefaultNode
                              /\ NodeAt(Nodes, d).Key \notin DOMAIN KeyToNodeIndex'
              /\ NodeAt(Nodes', lastCall'.arg) =
                     [ CalledNode EXCEPT !.ChildIndices = NoChildren,
                                         !.bHasChildren = FALSE,
                                         !.bIsActive = TRUE ]
              /\ \A j \in (0..(Len(Nodes) - 1)) \ (D \cup {lastCall'.arg}) :
                     NodeAt(Nodes', j) = NodeAt(Nodes, j)
              /\ \A key \in DOMAIN KeyToNodeIndex :
                     KeyToNodeIndex[key] \notin D
                     => /\ key \in DOMAIN KeyToNodeIndex'
                        /\ KeyToNodeIndex'[key] = KeyToNodeIndex[key] ]_vars

\* MergeNode has merged the root, which had a subdivided child: the slots of
\* its 8 children and 8 grandchildren are cleared
C12_Witness ==
    /\ lastCall.op = "MergeNode"
    /\ lastCall.ret
    /\ lastCall.arg = 0
    /\ ~NodeAt(Nodes, 0).bHasChildren
    /\ Cardinality(ClearedSlots) = 16


\* a direct SubdivideNode call on a leaf above level 0 is being made
SubdivideAccepted ==
    /\ lastCall'.op = "SubdivideNode"
    /\ IsValidIndex(Nodes, lastCall'.arg)
    /\ ~CalledNode.bHasChildren
    /\ CalledNode.Key.Level > 0

\* what such a call does to the arena and the key map: 8 new nodes at the end
\* of the arena, of half the size, under the 8 child keys of the node's key,
\* each registered in the key map and linked from the node, which ends with
\* bHasChildren true and bIsActive false; the other slots are as they were
SubdivideStructure ==
    LET n == Len(Nodes)
        after == NodeAt(Nodes', lastCall'.arg)
    IN /\ Len(Nodes') = n + 8
       /\ \A i \in 0..7 :
              LET child == NodeAt(Nodes', n + i)
              IN /\ child.Key = GetChildren(CalledNode.Key)[i + 1]
                 /\ child.Size * 2 = CalledNode.Size
                 /\ child.ParentIndex = lastCall'.arg
                 /\ ~child.bHasChildren
                 /\ child.Key \in DOMAIN KeyToNodeIndex'
                 /\ KeyToNodeIndex'[child.Key] = n + i
                 /\ after.ChildIndices[i + 1] = n + i
       /\ Cardinality({ GetChildren(CalledNode.Key)[i] : i \in 1..8 }) = 8
       /\ after.bHasChildren
       /\ ~after.bIsActive
       /\ \A j \in (0..(n - 1)) \ {lastCall'.arg} : NodeAt(Nodes', j) = NodeAt(Nodes, j)

\* C13 as stated: SubdivideNode on a valid leaf creates the 8 children, links
\* and registers them, and leaves the node with bHasChildren true, bIsActive
\* false and no chunk.
C13_SubdivideDropsChunk ==
    [][ SubdivideAccepted
        => /\ SubdivideStructure
           /\ NodeAt(Nodes', lastCall'.arg).Chunk = NoChunk ]_vars

\* C13, amended: SubdivideNode on a valid leaf creates the 8 children, links
\* and registers them, and leaves the node with bHasChildren true and bIsActive
\* false; it does not touch the node's chunk.  The chunk of a node that an
\* UpdateLOD call has subdivided is dropped by the third pass of that call.
C13_SubdivideKeepsChunkUntilActivityPass ==
    [][ /\ SubdivideAccepted
           => /\ SubdivideStructure
              /\ NodeAt(Nodes', lastCall'.arg).Chunk = CalledNode.Chunk
        /\ lastCall'.op = "UpdateLOD"
           => \A i \in 0..(Len(Nodes) - 1) :
                  (~NodeAt(Nodes, i).bHasChildren /\ NodeAt(Nodes', i).bHasChildren)
                  => NodeAt(Nodes', i).Chunk = NoChunk ]_vars

\* SubdivideNode has subdivided a node that held a chunk
C13_Witness ==
    /\ lastCall.op = "SubdivideNode"
    /\ lastCall.ret
    /\ NodeAt(Nodes, lastCall.arg).bHasChildren
    /\ NodeAt(Nodes, lastCall.arg).Chunk # NoChunk


(***************************************************************************)
(* The passes of UpdateLOD                                                 *)
(***************************************************************************)
\* the first pass of the UpdateLOD call that makes the step
CallFirstPass == FirstPass(Tree(Nodes, KeyToNodeIndex), RootIndices, CameraPosition')

\* C14: the first pass of UpdateLOD makes no structural change: at its end the
\* arena has the length it had, the key map is the same, and every node is as
\* it was except for its distance from the camera; what is to be done is only
\* recorded in the two lists.
C14_FirstPassOnlyRecords ==
    [][ (lastCall'.op = "UpdateLOD" /\ RootIndices # << >>)
        => /\ Len(CallFirstPass.Nodes) = Len(Nodes)
           /\ CallFirstPass.KeyToNodeIndex = KeyToNodeIndex
           /\ \A i \in 0..(Len(Nodes) - 1) :
                  /\ NodeAt(CallFirstPass.Nodes, i).ChildIndices = NodeAt(Nodes, i).ChildIndices
                  /\ NodeAt(CallFirstPass.Nodes, i).bHasChildren = NodeAt(Nodes, i).bHasChildren
                  /\ [ NodeAt(CallFirstPass.Nodes, i) EXCEPT
                         !.DistanceFromCameraSq = NodeAt(Nodes, i).DistanceFromCameraSq ]
                     = NodeAt(Nodes, i)
           /\ lastCall'.arg.NodesToSubdivide = CallFirstPass.NodesToSubdivide
           /\ lastCall'.arg.NodesToMerge = CallFirstPass.NodesToMerge ]_vars

\* an UpdateLOD call whose first pass recorded a subdivision and a merge
C14_Witness ==
    /\ lastCall.op = "UpdateLOD"
    /\ lastCall.arg.NodesToSubdivide # << >>
    /\ lastCall.arg.NodesToMerge # << >>


\* the node the k-th recorded subdivision is for lies below a node recorded for merging
UnderRecordedMerge(k) ==
    \E m \in Range(CallFirstPass.NodesToMerge) :
        CallFirstPass.NodesToSubdivide[k] \in Descendants(Nodes, m)

\* C15: within one UpdateLOD call every recorded subdivision is applied before
\* any recorded merge.  Each recorded subdivision therefore finds its node as
\* the first pass left it and appends 8 children to the arena; each recorded
\* merge finds those children in place, so the children made in this call
\* below a merged node are cleared by the merge and the others stay linked.
C15_SubdivisionsBeforeMerges ==
    [][ (lastCall'.op = "UpdateLOD" /\ RootIndices # << >>)
        => LET n == Len(Nodes)
               P == CallFirstPass
           IN /\ Len(Nodes') = n + 8 * Len(P.NodesToSubdivide)
              /\ \A k \in 1..Len(P.NodesToSubdivide) : \A c \in 0..7 :
                     LET slot == n + 8 * (k - 1) + c
                     IN IF UnderRecordedMerge(k)
                        THEN NodeAt(Nodes', slot) = DefaultNode
                        ELSE /\ NodeAt(Nodes', slot).ParentIndex = P.NodesToSubdivide[k]
                             /\ NodeAt(Nodes', P.NodesToSubdivide[k]).ChildIndices[c + 1] = slot
              /\ \A m \in Range(P.NodesToMerge) : ~NodeAt(Nodes', m).bHasChildren ]_vars

\* an UpdateLOD call that recorded subdivisions and a merge, and whose merge
\* cleared the children its subdivisions had just appended
C15_Witness ==
    /\ lastCall.op = "UpdateLOD"
    /\ lastCall.arg.NodesToSubdivide # << >>
    /\ lastCall.arg.NodesToMerge # << >>
    /\ \A i \in (Len(Nodes) - 8 * Len(lastCall.arg.NodesToSubdivide))..(Len(Nodes) - 1) :
           NodeAt(Nodes, i) = DefaultNode


\* slot i holds an active leaf of the tree that owns a chunk
ActiveLeafWithChunk(nodes, roots, i) ==
    /\ i \in Range(BreadthFirst(nodes, roots))
    /\ ~NodeAt(nodes, i).bHasChildren
    /\ NodeAt(nodes, i).bIsActive
    /\ NodeAt(nodes, i).Chunk # NoChunk

\* C17: a node that is an active leaf with a chunk before an UpdateLOD call
\* and is an active leaf after it owns the same chunk object after the call,
\* and that chunk's mesh and generation flags (all its fields) are unchanged.
C17_ChunkPersists ==
    [][ lastCall'.op = "UpdateLOD"
        => \A i \in 0..(Len(Nodes) - 1) :
               ( /\ ActiveLeafWithChunk(Nodes, RootIndices, i)
                 /\ i \in Range(BreadthFirst(Nodes', RootIndices'))
                 /\ ~NodeAt(Nodes', i).bHasChildren
                 /\ NodeAt(Nodes', i).bIsActive )
               => /\ NodeAt(Nodes', i).Chunk = NodeAt(Nodes, i).Chunk
                  /\ NodeAt(Nodes, i).Chunk \in DOMAIN Chunks'
                  /\ Chunks'[NodeAt(Nodes, i).Chunk] = Chunks[NodeAt(Nodes, i).Chunk] ]_vars

\* an UpdateLOD call has returned and an active leaf still owns a chunk with a
\* generated mesh, which only a generation before the call can have made
C17_Witness ==
    /\ lastCall.op = "UpdateLOD"
    /\ \E i \in 0..(Len(Nodes) - 1) :
           /\ ActiveLeafWithChunk(Nodes, RootIndices, i)
           /\ Chunks[NodeAt(Nodes, i).Chunk].bIsGenerated
           /\ Chunks[NodeAt(Nodes, i).Chunk].Vertices # << >>


(***************************************************************************)
(* The scenario rootSize = 1000, maxDepth = 4, subdivisionDistance = 50    *)
(* with the viewer at distance 10 from the centre of the root.             *)
(*                                                                         *)
(* MinChunkSize is 62.5 and is kept as 62; the nodes the scenario makes    *)
(* have the sizes 1000 and 500, for which Log2SizeRatio is exact.          *)
(***************************************************************************)
ScenarioConfiguration ==
    [ MaxDepth |-> 4, RootSize |-> 1000, SubdivisionDistance |-> 50 ]

\* the positions with integer coordinates at distance 10 from the root centre
ScenarioViewers ==
    { p \in ((0 - 10)..10) \X ((0 - 10)..10) \X ((0 - 10)..10) :
          DistSquared(p, WorldCenter) = 100 }

ScenarioInit == Constructed /\ NoTasks /\ Configured(ScenarioConfiguration) /\ ActorConstructed

ScenarioNext ==
    \/ Nodes = << >> /\ InitializeOctree
    \/ \E camera \in ScenarioViewers : UpdateLOD(camera, MaxNodes)

\* the owner of the component initialises it once and calls UpdateLOD on its ticks
ScenarioSpec == ScenarioInit /\ [][ScenarioNext]_vars

\* a live leaf whose size is at most the required size at its distance from camera
LeafAtRequiredSize(nodes, roots, camera) ==
    \E i \in Range(BreadthFirst(nodes, roots)) :
        /\ ~NodeAt(nodes, i).bHasChildren
        /\ ~RequiredSizeBelow(DistSquared(NodeAt(nodes, i).Center, camera),
                              Log2SizeRatio(NodeAt(nodes, i).Size))

\* C16: in the scenario every UpdateLOD call made while no leaf is at or below
\* the required size subdivides at least one node, and a state with a leaf at
\* or below the required size is reached after finitely many calls: every
\* UpdateLOD call on the initialised octree returns in such a state, so the
\* first call reaches it.
C16_SubdividesUntilRequiredSize ==
    [][ (lastCall'.op = "UpdateLOD" /\ RootIndices # << >>)
        => /\ ~LeafAtRequiredSize(Nodes, RootIndices, CameraPosition')
              => /\ lastCall'.arg.NodesToSubdivide # << >>
                 /\ \E i \in 0..(Len(Nodes) - 1) :
                        ~NodeAt(Nodes, i).bHasChildren /\ NodeAt(Nodes', i).bHasChildren
                 /\ Len(Nodes') >= Len(Nodes) + 8
           /\ LeafAtRequiredSize(Nodes', RootIndices', CameraPosition') ]_vars

\* the UpdateLOD call that subdivided the root has returned, and the children
\* it made are leaves at or below the required size
C16_Witness ==
    /\ lastCall.op = "UpdateLOD"
    /\ lastCall.arg.NodesToSubdivide = << 0 >>
    /\ RootSize = 1000 /\ MaxDepth = 4 /\ SubdivisionDistance = 50
    /\ DistSquared(CameraPosition, WorldCenter) = 100
    /\ LeafAtRequiredSize(Nodes, RootIndices, CameraPosition)


(***************************************************************************)
(* The octree changing under chunk generation tasks in flight              *)
(***************************************************************************)
\* the arena is bounded to the root and its 8 children
MaxCancelNodes == 9

\* a viewer next to the root centre, where the root subdivides, and one far
\* away, where it merges
CancelCameraPositions == { <<1, 1, 1>>, <<32, 0, 0>> }

CancelNext ==
    \/ Nodes = << >> /\ InitializeOctree
    \/ \E camera \in CancelCameraPositions : UpdateLOD(camera, MaxCancelNodes)
    \/ \E id \in Callable(MaxAsyncChunks), generator \in AsyncNoiseGenerators,
          OnComplete \in Callbacks :
           GenerateChunkAsync(id, generator, OnComplete) /\ Uncontended
    \/ \E i \in DOMAIN ActiveTasks : DoWorkBegin(i)
    \/ \E i \in DOMAIN ActiveTasks : DoWorkEnd(i)
    \/ ProcessCompletedTasks /\ Uncontended

CancelSpec == Init /\ [][CancelNext]_vars

\* the chunks a task holds that no node owns
Orphans == TaskChunks(ActiveTasks) \ NodeChunks(Nodes)

\* slot i is a live active leaf after the step
ActiveLeafAfter(i) ==
    /\ i \in Range(BreadthFirst(Nodes', RootIndices'))
    /\ ~NodeAt(Nodes', i).bHasChildren
    /\ NodeAt(Nodes', i).bIsActive

\* C18: when an UpdateLOD call subdivides or merges away the node that owns a
\* chunk whose generation task is in flight, the task stays in the task list
\* and the chunk stays alive and untouched for it, so the task can complete;
\* the chunk is in no node's slot from then on and is not among the active
\* chunks; when its task is retired the chunk is released.
C18_InFlightChunkOfRemovedNode ==
    [][ /\ lastCall'.op = "UpdateLOD"
           => /\ ActiveTasks' = ActiveTasks
              /\ CompletionCallbacks' = CompletionCallbacks
              /\ \A i \in 0..(Len(Nodes) - 1) :
                     ( /\ ActiveLeafWithChunk(Nodes, RootIndices, i)
                       /\ NodeAt(Nodes, i).Chunk \in TaskChunks(ActiveTasks)
                       /\ ~ActiveLeafAfter(i) )
                     => /\ NodeAt(Nodes, i).Chunk \notin NodeChunks(Nodes')
                        /\ NodeAt(Nodes, i).Chunk \in DOMAIN Chunks'
                        /\ Chunks'[NodeAt(Nodes, i).Chunk] = Chunks[NodeAt(Nodes, i).Chunk]
        /\ \A id \in Orphans :
               /\ id \notin NodeChunks(Nodes')
               /\ id \notin Range(GetActiveChunks(Nodes'))
               /\ id \notin TaskChunks(ActiveTasks') => id \notin DOMAIN Chunks' ]_vars

\* DoWork has returned for a task whose chunk no node owns any more: the owner
\* was subdivided or merged away while the task was in flight
C18_Witness ==
    /\ lastCall.op = "DoWork"
    /\ lastCall.chunk \in Orphans
    /\ \E i \in DOMAIN ActiveTasks :
           ActiveTasks[i].Chunk = lastCall.chunk /\ ActiveTasks[i].state = "done"
    /\ Nodes # << >>


(***************************************************************************)
(* FPlanetAsyncTaskManager call by call under TaskManagerCS                *)
(*                                                                         *)
(* A call in progress is [fn, pc, Chunk, NoiseGenerator, OnComplete]; pc   *)
(* is the position in Program(fn) of the step the thread takes next.       *)
(***************************************************************************)
TaskManagerCalls ==
    { "GenerateChunkAsync", "ProcessCompletedTasks", "ClearAllTasks", "GetActiveTaskCount" }

\* a GetActiveTaskCount that reads ActiveTasks.Num() without the FScopeLock
ProgramCountingWithoutLock(fn) ==
    IF fn = "GenerateChunkAsync" THEN << "check", "lock", "access", "unlock" >>
    ELSE IF fn = "GetActiveTaskCount" THEN << "access" >>
    ELSE << "lock", "access", "unlock" >>

\* the steps of each function: "check" is the argument test of
\* GenerateChunkAsync, "lock" the constructor of its FScopeLock, "access" the
\* statements that read and write ActiveTasks and CompletionCallbacks,
\* "unlock" the destructor of the FScopeLock at the end of the scope
Program(fn) ==
    IF fn = "GenerateChunkAsync" THEN << "check", "lock", "access", "unlock" >>
    ELSE << "lock", "access", "unlock" >>

\* the step thread t takes next, "none" outside a call
NextStep(t) ==
    IF Callers[t].fn = "none" THEN "none" ELSE Program(Callers[t].fn)[Callers[t].pc]

\* thread t has taken its step: the next one, or the return of the call
Advance(t) ==
    Callers' = [ Callers EXCEPT ![t] =
                   IF @.pc >= Len(Program(@.fn)) THEN Idle
                   ELSE [ Callers[t] EXCEPT !.pc = @ + 1 ] ]

\* the calls of GenerateChunkAsync that have not yet added their task
Entering == { t \in Threads : Callers[t].fn = "GenerateChunkAsync" }

\* thread t enters a function of the task manager
BeginCall(t, fn, id, generator, OnComplete) ==
    /\ Callers[t] = Idle
    /\ fn = "GenerateChunkAsync" => Len(ActiveTasks) + Cardinality(Entering) < MaxTasks
    /\ Callers' = [ Callers EXCEPT ![t] =
                      [ fn |-> fn, pc |-> 1, Chunk |-> id, NoiseGenerator |-> generator,
                        OnComplete |-> OnComplete ] ]
    /\ UNCHANGED << Nodes, KeyToNodeIndex, RootIndices, Chunks, ActiveTasks,
                    CompletionCallbacks, Invoked, CameraPosition, lastCall,
                    Configuration, ActorState, TaskManagerCS >>

\* "if (!Chunk.IsValid() || !NoiseGenerator) return;" of GenerateChunkAsync
CheckArguments(t) ==
    /\ NextStep(t) = "check"
    /\ IF Callers[t].NoiseGenerator = NullGenerator
       THEN /\ Callers' = [ Callers EXCEPT ![t] = Idle ]
            /\ lastCall' = Call("GenerateChunkAsync", Callers[t].Chunk,
                                Callers[t].NoiseGenerator, FALSE)
       ELSE /\ Advance(t)
            /\ UNCHANGED lastCall
    /\ UNCHANGED << Nodes, KeyToNodeIndex, RootIndices, Chunks, ActiveTasks,
                    CompletionCallbacks, Invoked, CameraPosition,
                    Configuration, ActorState, TaskManagerCS >>

\* FScopeLock Lock(&TaskManagerCS): waits until the critical section is free
Lock(t) ==
    /\ NextStep(t) = "lock"
    /\ TaskManagerCS = NoThread
    /\ TaskManagerCS' = t
    /\ Advance(t)
    /\ UNCHANGED << Nodes, KeyToNodeIndex, RootIndices, Chunks, ActiveTasks,
                    CompletionCallbacks, Invoked, CameraPosition, lastCall,
                    Configuration, ActorState >>

\* FPlanetAsyncTaskManager::GetActiveTaskCount: "return ActiveTasks.Num()"
GetActiveTaskCount ==
    /\ lastCall' = Call("GetActiveTaskCount", NoChunk, Len(ActiveTasks), TRUE)
    /\ UNCHANGED << Nodes, KeyToNodeIndex, RootIndices, Chunks, ActiveTasks,
                    CompletionCallbacks, Invoked, CameraPosition, Configuration, ActorState >>

\* the statements of the function that read and write the two lists
Access(t) ==
    /\ NextStep(t) = "access"
    /\ \/ /\ Callers[t].fn = "GenerateChunkAsync"
          /\ GenerateChunkAsync(Callers[t].Chunk, Callers[t].NoiseGenerator,
                                Callers[t].OnComplete)
       \/ /\ Callers[t].fn = "ProcessCompletedTasks"
          /\ ProcessCompletedTasks
       \/ /\ Callers[t].fn = "ClearAllTasks"
          /\ ClearAllTasks
       \/ /\ Callers[t].fn = "GetActiveTaskCount"
          /\ GetActiveTaskCount
    /\ Advance(t)
    /\ UNCHANGED TaskManagerCS

\* the end of the scope of the FScopeLock
Unlock(t) ==
    /\ NextStep(t) = "unlock"
    /\ TaskManagerCS' = NoThread
    /\ Advance(t)
    /\ UNCHANGED << Nodes, KeyToNodeIndex, RootIndices, Chunks, ActiveTasks,
                    CompletionCallbacks, Invoked, CameraPosition, lastCall,
                    Configuration, ActorState >>

\* two threads calling the task manager, the pool threads running DoWork, and
\* the octree, initialised once, with a far viewer
LockNext ==
    \/ Nodes = << >> /\ InitializeOctree
    \/ \E camera \in AsyncCameraPositions : UpdateLOD(camera, MaxNodes)
    \/ \E t \in Threads, id \in Callable(MaxAsyncChunks),
          generator \in AsyncNoiseGenerators \cup {NullGenerator} :
           BeginCall(t, "GenerateChunkAsync", id, generator, "OnComplete")
    \/ \E t \in Threads, fn \in TaskManagerCalls \ {"GenerateChunkAsync"} :
           BeginCall(t, fn, NoChunk, NullGenerator, NoCallback)
    \/ \E t \in Threads : CheckArguments(t)
    \/ \E t \in Threads : Lock(t)
    \/ \E t \in Threads : Access(t)
    \/ \E t \in Threads : Unlock(t)
    \/ \E i \in DOMAIN ActiveTasks : DoWorkBegin(i)
    \/ \E i \in DOMAIN ActiveTasks : DoWorkEnd(i)

LockSpec == Init /\ [][LockNext]_vars

\* the tracking list as a list: the chunk and generator of each task
TaskList(tasks) ==
    [ i \in 1..Len(tasks) |-> << tasks[i].Chunk, tasks[i].NoiseGenerator >> ]

\* thread t is inside a section that reads or writes the lists: at its access
\* or between its access and the end of the scope
InSection(t) == NextStep(t) \in { "access", "unlock" }

\* the step being taken is the access of thread t
Accessing(t) == NextStep(t) = "access" /\ Callers'[t] # Callers[t]

\* C19: every read or write of ActiveTasks and CompletionCallbacks, in
\* GenerateChunkAsync, ProcessCompletedTasks, ClearAllTasks and
\* GetActiveTaskCount, is made by a thread that holds TaskManagerCS, the lists
\* change in no other step, and no two threads are inside such a section at
\* the same time.
C19_ListsOnlyUnderLock ==
    [][ /\ \A t \in Threads : Accessing(t) => TaskManagerCS = t
        /\ ( \/ TaskList(ActiveTasks') # TaskList(ActiveTasks)
             \/ CompletionCallbacks' # CompletionCallbacks )
           => \E t \in Threads : Accessing(t) /\ TaskManagerCS = t
        /\ \A t1, t2 \in Threads : (InSection(t1) /\ InSection(t2)) => t1 = t2
        /\ \A t \in Threads : InSection(t) => TaskManagerCS = t ]_vars

\* one thread is inside GetActiveTaskCount and holds the lock, having read
\* the list with a task in it, while the other waits at its FScopeLock
C19_Witness ==
    \E t1, t2 \in Threads :
        /\ TaskManagerCS = t1
        /\ Callers[t1].fn = "GetActiveTaskCount"
        /\ NextStep(t1) = "unlock"
        /\ NextStep(t2) = "lock"
        /\ ActiveTasks # << >>


(***************************************************************************)
(* FSurfaceNets::GenerateMesh over a whole density field, and the chunk's  *)
(* filter of the padded mesh.  Lengths are in lattice units (VoxelSize 1,  *)
(* Origin at lattice point 0).  The densities drawn are -1, 0 and 1, so an *)
(* edge intersection lies at a multiple of 1/2 along its edge: a position  *)
(* is kept exactly as Base + Sum / (2 * Count).                            *)
(***************************************************************************)
MeshGridSize == 3

\* (density inside the box, density outside it)
MeshDensities == { << 0 - 1, 1 >>, << 0 - 1, 0 >>, << 1, 0 - 1 >>, << 0, 0 - 1 >> }

Boxes(N) ==
    { b \in ((0..(N - 1)) \X (0..(N - 1)) \X (0..(N - 1)))
              \X ((0..(N - 1)) \X (0..(N - 1)) \X (0..(N - 1))) :
        \A i \in 1..3 : b[1][i] <= b[2][i] }

BoxField(N, lo, hi, d) ==
    [ n \in 0..(N * N * N - 1) |->
        LET p == LatticePoint(n, N)
        IN IF \A i \in 1..3 : lo[i] <= p[i] /\ p[i] <= hi[i] THEN d[1] ELSE d[2] ]

\* the density fields handed to the extractor, each with its GridSize
MeshFields ==
    { [ DensityField |-> BoxField(N, b[1], b[2], d), GridSize |-> N ] :
        N \in {MeshGridSize}, b \in Boxes(MeshGridSize), d \in MeshDensities }
    \cup
    { [ DensityField |-> BoxField(N, b[1], b[2], d), GridSize |-> N ] :
        N \in {2}, b \in Boxes(2), d \in MeshDensities }
    \cup
    { [ DensityField |-> BoxField(N, b[1], b[2], d), GridSize |-> N ] :
        N \in {1}, b \in Boxes(1), d \in MeshDensities }

\* FSurfaceNets::CubeEdges
CubeEdges ==
    << <<0, 1>>, <<0, 2>>, <<0, 4>>, <<1, 3>>, <<1, 5>>, <<2, 3>>,
       <<2, 6>>, <<3, 7>>, <<4, 5>>, <<4, 6>>, <<5, 7>>, <<6, 7>> >>

\* FSurfaceNets::EstimateSurfaceEdgeIntersection, twice the point:
\* T = clamp(-Value1 / (Value2 - Value1), 0, 1), Lerp(Corner1, Corner2, T)
EstimateSurfaceEdgeIntersection(Corner1, Corner2, Value1, Value2) ==
    LET T2 == IF Value2 > Value1
              THEN (0 - 2 * Value1) \div (Value2 - Value1)
              ELSE (2 * Value1) \div (Value1 - Value2)
        Clamped == IF T2 < 0 THEN 0 ELSE IF T2 > 2 THEN 2 ELSE T2
        A == CubeCorners[Corner1 + 1]
        B == CubeCorners[Corner2 + 1]
    IN [ i \in 1..3 |-> 2 * A[i] + Clamped * (B[i] - A[i]) ]

\* the loop of CalculateCentroidOfEdgeIntersections from edge i on
RECURSIVE SumOfEdgeIntersections(_, _, _)
SumOfEdgeIntersections(CornerDists, i, acc) ==
    IF i > 12 THEN acc
    ELSE LET Corner1 == CubeEdges[i][1]
             Corner2 == CubeEdges[i][2]
             Value1 == CornerDists[Corner1 + 1]
             Value2 == CornerDists[Corner2 + 1]
         IN IF (Value1 < 0) # (Value2 < 0)
            THEN LET Intersection ==
                         EstimateSurfaceEdgeIntersection(Corner1, Corner2, Value1, Value2)
                 IN SumOfEdgeIntersections(CornerDists, i + 1,
                        [ Sum |-> [ k \in 1..3 |-> acc.Sum[k] + Intersection[k] ],
                          Count |-> acc.Count + 1 ])
            ELSE SumOfEdgeIntersections(CornerDists, i + 1, acc)

\* the centre of the cube, (0.5, 0.5, 0.5)
CubeCenter == [ Sum |-> << 1, 1, 1 >>, Count |-> 1 ]

\* FSurfaceNets::CalculateCentroidOfEdgeIntersections: Sum / Count
CalculateCentroidOfEdgeIntersections(CornerDists) ==
    LET S == SumOfEdgeIntersections(CornerDists, 1, [ Sum |-> << 0, 0, 0 >>, Count |-> 0 ])
    IN IF S.Count > 0 THEN S ELSE CubeCenter

\* FSurfaceNets::CalculateVertexPosition
CalculateVertexPosition(DensityField, GridSize, x, y, z) ==
    LET CornerDists == [ i \in 1..8 |->
                           GetDensity(DensityField, GridSize, x + CubeCorners[i][1],
                                      y + CubeCorners[i][2], z + CubeCorners[i][3]) ]
        NumNegative == Cardinality({ i \in 1..8 : CornerDists[i] < 0 })
        Offset == IF NumNegative = 0 \/ NumNegative = 8
                  THEN CubeCenter
                  ELSE CalculateCentroidOfEdgeIntersections(CornerDists)
    IN [ Base |-> << x, y, z >>, Sum |-> Offset.Sum, Count |-> Offset.Count ]

\* FSurfaceNets::CalculateGradient: central differences
CalculateGradient(DensityField, GridSize, x, y, z) ==
    << GetDensity(DensityField, GridSize, x + 1, y, z)
         - GetDensity(DensityField, GridSize, x - 1, y, z),
       GetDensity(DensityField, GridSize, x, y + 1, z)
         - GetDensity(DensityField, GridSize, x, y - 1, z),
       GetDensity(DensityField, GridSize, x, y, z + 1)
         - GetDensity(DensityField, GridSize, x, y, z - 1) >>

\* FVector::GetSafeNormal: the zero vector for a zero vector, otherwise the
\* vector divided by the root of SizeSquared
GetSafeNormal(v) ==
    LET SizeSquared == v[1] * v[1] + v[2] * v[2] + v[3] * v[3]
    IN IF SizeSquared = 0
       THEN [ Direction |-> << 0, 0, 0 >>, SizeSquared |-> 1 ]
       ELSE [ Direction |-> v, SizeSquared |-> SizeSquared ]

AddVertexIndexedAfterAdd(M, DensityField, GridSize, x, y, z) ==
    LET VertexPos == CalculateVertexPosition(DensityField, GridSize, x, y, z)
        Normal == CalculateGradient(DensityField, GridSize, x, y, z)
        VertexIndex == Len(M.OutVertices) + 1
        GridIndex == x + y * GridSize + z * GridSize * GridSize
    IN [ OutVertices |-> Append(M.OutVertices, VertexPos),
         OutNormals |-> Append(M.OutNormals, GetSafeNormal(Normal)),
         VertexMap |-> Append(M.VertexMap, << << x, y, z >>, VertexIndex >>),
         VertexGrid |-> [ M.VertexGrid EXCEPT ![GridIndex] = VertexIndex ] ]

\* FSurfaceNets::GenerateMesh, phase 1, the body run for a cube that
\* contains the surface
AddVertex(M, DensityField, GridSize, x, y, z) ==
    LET VertexPos == CalculateVertexPosition(DensityField, GridSize, x, y, z)
        Normal == CalculateGradient(DensityField, GridSize, x, y, z)
        VertexIndex == Len(M.OutVertices)
        GridIndex == x + y * GridSize + z * GridSize * GridSize
    IN [ OutVertices |-> Append(M.OutVertices, VertexPos),
         OutNormals |-> Append(M.OutNormals, GetSafeNormal(Normal)),
         VertexMap |-> Append(M.VertexMap, << << x, y, z >>, VertexIndex >>),
         VertexGrid |-> [ M.VertexGrid EXCEPT ![GridIndex] = VertexIndex ] ]

\* FSurfaceNets::GenerateMesh, phase 1, from cube c on: the cubes
\* 0..GridSize-2 on each axis, x fastest, then y, then z
RECURSIVE EstimateVertices(_, _, _, _)
EstimateVertices(DensityField, GridSize, c, M) ==
    IF c >= (GridSize - 1) * (GridSize - 1) * (GridSize - 1) THEN M
    ELSE LET p == LatticePoint(c, GridSize - 1)
         IN EstimateVertices(DensityField, GridSize, c + 1,
                IF ContainsSurface(DensityField, GridSize, p[1], p[2], p[3])
                THEN AddVertex(M, DensityField, GridSize, p[1], p[2], p[3])
                ELSE M)

\* FSurfaceNets::GetVertexIndex
GetVertexIndex(VertexGrid, GridSize, x, y, z) ==
    IF x < 0 \/ x >= GridSize \/ y < 0 \/ y >= GridSize \/ z < 0 \/ z >= GridSize
    THEN 0 - 1
    ELSE VertexGrid[x + y * GridSize + z * GridSize * GridSize]

MaybeCreateQuadWithoutDiagonal(DensityField, GridSize, VertexGrid, P1, P2, AxisB, AxisC, OutTriangles) ==
    LET D1 == GetDensity(DensityField, GridSize, P1[1], P1[2], P1[3])
        D2 == GetDensity(DensityField, GridSize, P2[1], P2[2], P2[3])
        bPositiveFace == D1 < 0 /\ D2 >= 0
        bNegativeFace == D1 >= 0 /\ D2 < 0
        V(q) == GetVertexIndex(VertexGrid, GridSize, q[1], q[2], q[3])
        V1 == V(P1)
        V2 == V([ i \in 1..3 |-> P1[i] - AxisB[i] ])
        V3 == V([ i \in 1..3 |-> P1[i] - AxisC[i] ])
        V4 == V([ i \in 1..3 |-> P1[i] - AxisB[i] ])
    IN IF ~bPositiveFace /\ ~bNegativeFace THEN OutTriangles
       ELSE IF V1 = 0 - 1 \/ V2 = 0 - 1 \/ V3 = 0 - 1 \/ V4 = 0 - 1 THEN OutTriangles
       ELSE IF bNegativeFace
            THEN OutTriangles \o << V1, V2, V4, V1, V4, V3 >>
            ELSE OutTriangles \o << V1, V4, V2, V1, V3, V4 >>

\* FSurfaceNets::MaybeCreateQuad: OutTriangles after the call
MaybeCreateQuad(DensityField, GridSize, VertexGrid, P1, P2, AxisB, AxisC, OutTriangles) ==
    LET D1 == GetDensity(DensityField, GridSize, P1[1], P1[2], P1[3])
        D2 == GetDensity(DensityField, GridSize, P2[1], P2[2], P2[3])
        bPositiveFace == D1 < 0 /\ D2 >= 0
        bNegativeFace == D1 >= 0 /\ D2 < 0
        V(q) == GetVertexIndex(VertexGrid, GridSize, q[1], q[2], q[3])
        V1 == V(P1)
        V2 == V([ i \in 1..3 |-> P1[i] - AxisB[i] ])
        V3 == V([ i \in 1..3 |-> P1[i] - AxisC[i] ])
        V4 == V([ i \in 1..3 |-> P1[i] - AxisB[i] - AxisC[i] ])
    IN IF ~bPositiveFace /\ ~bNegativeFace THEN OutTriangles
       ELSE IF V1 = 0 - 1 \/ V2 = 0 - 1 \/ V3 = 0 - 1 \/ V4 = 0 - 1 THEN OutTriangles
       ELSE IF bNegativeFace
            THEN OutTriangles \o << V1, V2, V4, V1, V4, V3 >>
            ELSE OutTriangles \o << V1, V4, V2, V1, V3, V4 >>

RECURSIVE MakeAllQuadsThroughLastLayer(_, _, _, _, _, _)
MakeAllQuadsThroughLastLayer(DensityField, GridSize, VertexMap, VertexGrid, i, OutTriangles) ==
    IF i > Len(VertexMap) THEN OutTriangles
    ELSE LET CubePos == VertexMap[i][1]
             x == CubePos[1]
             y == CubePos[2]
             z == CubePos[3]
             XStride == << 1, 0, 0 >>
             YStride == << 0, 1, 0 >>
             ZStride == << 0, 0, 1 >>
             Plus(s) == [ k \in 1..3 |-> CubePos[k] + s[k] ]
             AfterX == IF y > 0 /\ z > 0
                       THEN MaybeCreateQuad(DensityField, GridSize, VertexGrid, CubePos,
                                            Plus(XStride), YStride, ZStride, OutTriangles)
                       ELSE OutTriangles
             AfterY == IF x > 0 /\ z > 0
                       THEN MaybeCreateQuad(DensityField, GridSize, VertexGrid, CubePos,
                                            Plus(YStride), ZStride, XStride, AfterX)
                       ELSE AfterX
             AfterZ == IF x > 0 /\ y > 0
                       THEN MaybeCreateQuad(DensityField, GridSize, VertexGrid, CubePos,
                                            Plus(ZStride), XStride, YStride, AfterY)
                       ELSE AfterY
         IN MakeAllQuadsThroughLastLayer(DensityField, GridSize, VertexMap, VertexGrid,
                                         i + 1, AfterZ)

\* FSurfaceNets::MakeAllQuads from pair i of VertexMap on
RECURSIVE MakeAllQuads(_, _, _, _, _, _)
MakeAllQuads(DensityField, GridSize, VertexMap, VertexGrid, i, OutTriangles) ==
    IF i > Len(VertexMap) THEN OutTriangles
    ELSE LET CubePos == VertexMap[i][1]
             x == CubePos[1]
             y == CubePos[2]
             z == CubePos[3]
             XStride == << 1, 0, 0 >>
             YStride == << 0, 1, 0 >>
             ZStride == << 0, 0, 1 >>
             Plus(s) == [ k \in 1..3 |-> CubePos[k] + s[k] ]
             AfterX == IF y > 0 /\ z > 0 /\ x < GridSize - 2
                       THEN MaybeCreateQuad(DensityField, GridSize, VertexGrid, CubePos,
                                            Plus(XStride), YStride, ZStride, OutTriangles)
                       ELSE OutTriangles
             AfterY == IF x > 0 /\ z > 0 /\ y < GridSize - 2
                       THEN MaybeCreateQuad(DensityField, GridSize, VertexGrid, CubePos,
                                            Plus(YStride), ZStride, XStride, AfterX)
                       ELSE AfterX
             AfterZ == IF x > 0 /\ y > 0 /\ z < GridSize - 2
                       THEN MaybeCreateQuad(DensityField, GridSize, VertexGrid, CubePos,
                                            Plus(ZStride), XStride, YStride, AfterY)
                       ELSE AfterY
         IN MakeAllQuads(DensityField, GridSize, VertexMap, VertexGrid, i + 1, AfterZ)

EmptyMesh == [ Vertices |-> << >>, Triangles |-> << >>, Normals |-> << >> ]

\* output arrays left as they were handed in
KeptOutputs(Out) == Out

\* "OutVertices.Empty(); OutTriangles.Empty(); OutNormals.Empty();"
EmptyOutputs(Out) == [ Out EXCEPT !.Vertices = << >>, !.Triangles = << >>, !.Normals = << >> ]

\* FSurfaceNets::GenerateMesh(DensityField, GridSize, VoxelSize, Origin,
\* OutVertices, OutTriangles, OutNormals) called with the output arrays Out:
\* the three output arrays after the call
GenerateMeshInto(Out, DensityField, GridSize) ==
    LET Cleared == EmptyOutputs(Out)
    IN IF GridSize < 2 THEN Cleared
       ELSE LET M == EstimateVertices(DensityField, GridSize, 0,
                         [ OutVertices |-> Cleared.Vertices, OutNormals |-> Cleared.Normals,
                           VertexMap |-> << >>,
                           VertexGrid |-> [ n \in 0..(GridSize * GridSize * GridSize - 1)
                                              |-> 0 - 1 ] ])
            IN [ Vertices |-> M.OutVertices,
                 Triangles |-> MakeAllQuads(DensityField, GridSize, M.VertexMap,
                                            M.VertexGrid, 1, Cleared.Triangles),
                 Normals |-> M.OutNormals ]

\* the same call with fresh output arrays
SurfaceNetsGenerateMesh(DensityField, GridSize) ==
    GenerateMeshInto(EmptyMesh, DensityField, GridSize)

\* FPlanetChunk::GenerateMesh, the test of a padded vertex against the chunk
\* bounds: ChunkMin is lattice point 1 and ChunkMax lattice point
\* PaddedSize - 1 on each axis, the tolerance is VoxelSize * 0.1
WithinChunkBounds(Vertex, PaddedSize) ==
    \A k \in 1..3 :
        LET Position20 == 10 * (2 * Vertex.Count * Vertex.Base[k] + Vertex.Sum[k])
        IN /\ Position20 >= (10 * 1 - 1) * 2 * Vertex.Count
           /\ Position20 <= (10 * (PaddedSize - 1) + 1) * 2 * Vertex.Count

\* FPlanetChunk::GenerateMesh, the vertex filter from padded vertex i on;
\* VertexRemapping holds -1 for an index it has no entry for
RECURSIVE FilterVertices(_, _, _, _)
FilterVertices(Padded, PaddedSize, i, F) ==
    IF i >= Len(Padded.Vertices) THEN F
    ELSE FilterVertices(Padded, PaddedSize, i + 1,
            IF WithinChunkBounds(Padded.Vertices[i + 1], PaddedSize)
            THEN [ Vertices |-> Append(F.Vertices, Padded.Vertices[i + 1]),
                   Normals |-> Append(F.Normals, Padded.Normals[i + 1]),
                   VertexRemapping |-> Append(F.VertexRemapping, Len(F.Vertices)) ]
            ELSE [ F EXCEPT !.VertexRemapping = Append(@, 0 - 1) ])

\* FPlanetChunk::GenerateMesh, the triangle filter from index i on, i += 3
RECURSIVE FilterTriangles(_, _, _, _)
FilterTriangles(PaddedTriangles, VertexRemapping, i, Triangles) ==
    IF i >= Len(PaddedTriangles) THEN Triangles
    ELSE LET NewV1 == VertexRemapping[PaddedTriangles[i + 1] + 1]
             NewV2 == VertexRemapping[PaddedTriangles[i + 2] + 1]
             NewV3 == VertexRemapping[PaddedTriangles[i + 3] + 1]
         IN FilterTriangles(PaddedTriangles, VertexRemapping, i + 3,
                IF NewV1 # 0 - 1 /\ NewV2 # 0 - 1 /\ NewV3 # 0 - 1
                THEN Triangles \o << NewV1, NewV2, NewV3 >>
                ELSE Triangles)

\* FPlanetChunk::GenerateMesh of PlanetChunk.cpp on a padded density field:
\* extract the padded mesh, keep the vertices within the chunk bounds and the
\* triangles whose three vertices were kept
GenerateMeshFiltered(PaddedDensityField, PaddedSize) ==
    LET Padded == SurfaceNetsGenerateMesh(PaddedDensityField, PaddedSize)
        F == FilterVertices(Padded, PaddedSize, 0,
                 [ Vertices |-> << >>, Normals |-> << >>, VertexRemapping |-> << >> ])
    IN [ Vertices |-> F.Vertices,
         Triangles |-> FilterTriangles(Padded.Triangles, F.VertexRemapping, 0, << >>),
         Normals |-> F.Normals ]

\* TMap::Find on VertexMap: the vertex index stored for Cube, -1 for no entry
VertexMapFind(VertexMap, Cube) ==
    IF \E i \in 1..Len(VertexMap) : VertexMap[i][1] = Cube
    THEN VertexMap[CHOOSE i \in 1..Len(VertexMap) : VertexMap[i][1] = Cube][2]
    ELSE 0 - 1

\* FSurfaceNets::CreateQuadBetweenCubes of SurfaceNets.cpp: OutTriangles after
\* the call
CreateQuadBetweenCubes(Cube1, Cube2, VertexMap, OutTriangles) ==
    LET V1 == VertexMapFind(VertexMap, Cube1)
        V2 == VertexMapFind(VertexMap, Cube2)
        Direction == [ k \in 1..3 |-> Cube2[k] - Cube1[k] ]
        Offset1 == IF Direction[1] # 0 THEN << 0, 1, 0 >> ELSE << 1, 0, 0 >>
        Offset2 == IF Direction[3] # 0 /\ Direction[1] = 0 /\ Direction[2] = 0
                   THEN << 0, 1, 0 >> ELSE << 0, 0, 1 >>
        Plus(c, o) == [ k \in 1..3 |-> c[k] + o[k] ]
        V3a == VertexMapFind(VertexMap, Plus(Cube1, Offset1))
        V4a == VertexMapFind(VertexMap, Plus(Cube2, Offset1))
        V3b == VertexMapFind(VertexMap, Plus(Cube1, Offset2))
        V4b == VertexMapFind(VertexMap, Plus(Cube2, Offset2))
        First == IF V3a # 0 - 1 /\ V4a # 0 - 1
                 THEN OutTriangles \o << V1, V3a, V2, V2, V3a, V4a >>
                 ELSE OutTriangles
    IN IF V1 = 0 - 1 \/ V2 = 0 - 1 THEN OutTriangles
       ELSE IF Direction = << 0, 0, 0 >> THEN OutTriangles
       ELSE IF V3b # 0 - 1 /\ V4b # 0 - 1
            THEN First \o << V1, V2, V3b, V2, V4b, V3b >>
            ELSE First

\* FSurfaceNets::MakeAllQuads of SurfaceNets.cpp from pair i of VertexMap on
RECURSIVE MakeAllQuadsBetweenCubes(_, _, _)
MakeAllQuadsBetweenCubes(VertexMap, i, OutTriangles) ==
    IF i > Len(VertexMap) THEN OutTriangles
    ELSE LET CubePos == VertexMap[i][1]
             Neighbor(s) == [ k \in 1..3 |-> CubePos[k] + s[k] ]
             Toward(s, T) == IF VertexMapFind(VertexMap, Neighbor(s)) # 0 - 1
                             THEN CreateQuadBetweenCubes(CubePos, Neighbor(s), VertexMap, T)
                             ELSE T
         IN MakeAllQuadsBetweenCubes(VertexMap, i + 1,
                Toward(<< 0, 0, 1 >>, Toward(<< 0, 1, 0 >>, Toward(<< 1, 0, 0 >>, OutTriangles))))

\* FSurfaceNets::GenerateMesh of SurfaceNets.cpp: phase 1 as above, phase 2
\* with the quads between neighbouring cubes
GenerateMeshBetweenCubes(DensityField, GridSize) ==
    IF GridSize < 2 THEN EmptyMesh
    ELSE LET M == EstimateVertices(DensityField, GridSize, 0,
                      [ OutVertices |-> << >>, OutNormals |-> << >>, VertexMap |-> << >>,
                        VertexGrid |-> [ n \in 0..(GridSize * GridSize * GridSize - 1) |-> 0 - 1 ] ])
         IN [ Vertices |-> M.OutVertices,
              Triangles |-> MakeAllQuadsBetweenCubes(M.VertexMap, 1, << >>),
              Normals |-> M.OutNormals ]

MeshInit ==
    /\ Nodes = << >>
    /\ KeyToNodeIndex = EmptyMap
    /\ RootIndices = << >>
    /\ Chunks = EmptyMap
    /\ CameraPosition = NoCamera
    /\ NoTasks
    /\ Configured(SmallConfiguration) /\ ActorConstructed
    /\ \E field \in MeshFields : lastCall = Call("DensityField", NoChunk, field, EmptyMesh)

MeshCall(op, ret) ==
    /\ lastCall' = Call(op, NoChunk, lastCall.arg, ret)
    /\ UNCHANGED << Nodes, KeyToNodeIndex, RootIndices, Chunks, ActiveTasks,
                    CompletionCallbacks, Invoked, CameraPosition,
                    Configuration, ActorState, LockState >>

\* SurfaceNets.GenerateMesh(DensityField, GridSize, ...)
SurfaceNetsGenerateMeshCall ==
    /\ lastCall.op = "DensityField"
    /\ MeshCall("FSurfaceNets::GenerateMesh",
                SurfaceNetsGenerateMesh(lastCall.arg.DensityField, lastCall.arg.GridSize))

\* Chunk.GenerateMesh(NoiseGenerator) where the padded field sampled is the
\* one drawn; PaddedSize is VoxelResolution + 2 with VoxelResolution >= 1
GenerateMeshFilteredCall ==
    /\ lastCall.op = "DensityField"
    /\ lastCall.arg.GridSize >= 3
    /\ MeshCall("FPlanetChunk::GenerateMesh",
                GenerateMeshFiltered(lastCall.arg.DensityField, lastCall.arg.GridSize))

\* SurfaceNets.GenerateMesh(DensityField, GridSize, ...) of SurfaceNets.cpp
GenerateMeshBetweenCubesCall ==
    /\ lastCall.op = "DensityField"
    /\ MeshCall("FSurfaceNets::GenerateMesh (SurfaceNets.cpp)",
                GenerateMeshBetweenCubes(lastCall.arg.DensityField, lastCall.arg.GridSize))

\* a second SurfaceNets.GenerateMesh(DensityField, GridSize, ...) on the same
\* field, into the arrays the first call filled
GenerateMeshAgainCall ==
    /\ lastCall.op = "FSurfaceNets::GenerateMesh"
    /\ MeshCall("FSurfaceNets::GenerateMesh again",
                GenerateMeshInto(lastCall.ret, lastCall.arg.DensityField,
                                 lastCall.arg.GridSize))

MeshNext ==
    \/ SurfaceNetsGenerateMeshCall
    \/ GenerateMeshAgainCall
    \/ GenerateMeshFilteredCall
    \/ GenerateMeshBetweenCubesCall

MeshSpec == MeshInit /\ [][MeshNext]_vars

MeshProduced ==
    lastCall.op \in {"FSurfaceNets::GenerateMesh", "FPlanetChunk::GenerateMesh",
                      "FSurfaceNets::GenerateMesh (SurfaceNets.cpp)",
                      "FSurfaceNets::GenerateMesh again"}

\* C20: every mesh the surface extractor produces, and every mesh the chunk
\* keeps of it, has as many normals as vertices, a number of triangle
\* indices that is a multiple of 3, and only triangle indices i with
\* 0 <= i < number of vertices
C20_MeshWellFormed ==
    MeshProduced =>
        LET mesh == lastCall.ret
        IN /\ Len(mesh.Normals) = Len(mesh.Vertices)
           /\ Len(mesh.Triangles) % 3 = 0
           /\ \A i \in 1..Len(mesh.Triangles) :
                  mesh.Triangles[i] >= 0 /\ mesh.Triangles[i] < Len(mesh.Vertices)

\* a mesh with quads was extracted: at least four vertices and six indices
C20_Witness ==
    /\ lastCall.op = "FSurfaceNets::GenerateMesh"
    /\ Len(lastCall.ret.Vertices) >= 4
    /\ Len(lastCall.ret.Triangles) >= 6
    /\ Len(lastCall.ret.Normals) = Len(lastCall.ret.Vertices)


\* C21: no triangle of a produced mesh names the same vertex twice: the
\* three indices of every triangle are pairwise different
C21_NoDegenerateTriangle ==
    MeshProduced =>
        LET T == lastCall.ret.Triangles
        IN \A t \in 0..((Len(T) \div 3) - 1) :
               /\ T[3 * t + 1] # T[3 * t + 2]
               /\ T[3 * t + 2] # T[3 * t + 3]
               /\ T[3 * t + 1] # T[3 * t + 3]

\* the quadrangulation of part_013 emitted the two triangles of a quad
C21_Witness ==
    /\ lastCall.op = "FSurfaceNets::GenerateMesh"
    /\ Len(lastCall.ret.Triangles) >= 6
    /\ lastCall.ret.Triangles[1] = lastCall.ret.Triangles[4]
    /\ lastCall.ret.Triangles[2] # lastCall.ret.Triangles[3]


(***************************************************************************)
(* The faces of a density field: a cell that produced a vertex, an axis,   *)
(* and opposite signs at the cell's corner and the next corner on the axis *)
(***************************************************************************)
Axes == << << 1, 0, 0 >>, << 0, 1, 0 >>, << 0, 0, 1 >> >>

\* the vertex grid phase 1 leaves for the field of the last call
GridOfCall ==
    LET a == lastCall.arg
    IN EstimateVertices(a.DensityField, a.GridSize, 0,
           [ OutVertices |-> << >>, OutNormals |-> << >>, VertexMap |-> << >>,
             VertexGrid |-> [ n \in 0..(a.GridSize * a.GridSize * a.GridSize - 1) |-> 0 - 1 ] ]).VertexGrid

CellVertex(G, P) ==
    LET N == lastCall.arg.GridSize
    IN IF \E k \in 1..3 : P[k] < 0 \/ P[k] >= N
       THEN 0 - 1
       ELSE G[P[1] + P[2] * N + P[3] * N * N]

SignChanging(P, axis) ==
    LET a == lastCall.arg
        D1 == GetDensity(a.DensityField, a.GridSize, P[1], P[2], P[3])
        D2 == GetDensity(a.DensityField, a.GridSize, P[1] + Axes[axis][1],
                         P[2] + Axes[axis][2], P[3] + Axes[axis][3])
    IN (D1 < 0) # (D2 < 0)

\* the faces, given the vertex grid G
Faces(G) ==
    LET N == lastCall.arg.GridSize
    IN { f \in ((0..(N - 1)) \X (0..(N - 1)) \X (0..(N - 1))) \X (1..3) :
           CellVertex(G, f[1]) # 0 - 1 /\ SignChanging(f[1], f[2]) }

\* the four cells that share the face: the cell and the cells one step down
\* on one or on both of the two other axes
CellsOfFace(f) ==
    LET P == f[1]
        B == Axes[(f[2] % 3) + 1]
        C == Axes[((f[2] + 1) % 3) + 1]
    IN { P, [ k \in 1..3 |-> P[k] - B[k] ], [ k \in 1..3 |-> P[k] - C[k] ],
         [ k \in 1..3 |-> P[k] - B[k] - C[k] ] }

AllFourExist(G, f) == \A P \in CellsOfFace(f) : CellVertex(G, P) # 0 - 1

\* the face lies before the last layer of cubes on its axis
BeforeLastLayer(f) == f[1][f[2]] < lastCall.arg.GridSize - 2

\* the number of quads (two triangles, six indices) emitted for the face
QuadsOfFace(G, f) ==
    LET T == lastCall.ret.Triangles
        V == { CellVertex(G, P) : P \in CellsOfFace(f) }
    IN Cardinality({ q \in 0..((Len(T) \div 6) - 1) :
                       { T[6 * q + k] : k \in 1..6 } = V })

ExtractedByPart013 == lastCall.op = "FSurfaceNets::GenerateMesh"

\* C22 as stated: every sign-changing face whose four cell-vertices exist
\* gets exactly two triangles, every other face none
C22_TwoTrianglesPerFace ==
    ExtractedByPart013 =>
        LET G == GridOfCall
        IN \A f \in Faces(G) :
               QuadsOfFace(G, f) = (IF AllFourExist(G, f) THEN 1 ELSE 0)

\* C22: a sign-changing face gets exactly two triangles when its four
\* cell-vertices exist and it lies before the last layer of cubes on its
\* axis; every other face gets none, and nothing else is emitted
C22_TwoTrianglesPerFaceBeforeLastLayer ==
    ExtractedByPart013 =>
        LET G == GridOfCall
            F == Faces(G)
        IN /\ \A f \in F :
                  QuadsOfFace(G, f) = (IF AllFourExist(G, f) /\ BeforeLastLayer(f) THEN 1 ELSE 0)
           /\ Len(lastCall.ret.Triangles)
                = 6 * Cardinality({ f \in F : AllFourExist(G, f) /\ BeforeLastLayer(f) })

\* a mesh with a face that got its two triangles, a face with a missing
\* cell-vertex and a face in the last layer whose four cell-vertices exist
C22_Witness ==
    /\ ExtractedByPart013
    /\ LET G == GridOfCall
           F == Faces(G)
       IN /\ \E f \in F : AllFourExist(G, f) /\ BeforeLastLayer(f) /\ QuadsOfFace(G, f) = 1
          /\ \E f \in F : ~AllFourExist(G, f) /\ QuadsOfFace(G, f) = 0
          /\ \E f \in F : AllFourExist(G, f) /\ ~BeforeLastLayer(f)


(***************************************************************************)
(* FSurfaceNets::GetDensity as a function of its own: the queries of every *)
(* lattice point and of the points one step outside the lattice            *)
(***************************************************************************)
\* the indices of DensityField that FSurfaceNets::GetDensity reads
GetDensityReads(GridSize, x, y, z) ==
    IF x < 0 \/ x >= GridSize \/ y < 0 \/ y >= GridSize \/ z < 0 \/ z >= GridSize
    THEN {}
    ELSE { x + y * GridSize + z * GridSize * GridSize }

\* the fields queried: a box that starts at lattice point 0
DensityFields ==
    { [ DensityField |-> BoxField(MeshGridSize, << 0, 0, 0 >>, hi, d),
        GridSize |-> MeshGridSize ] :
        hi \in (0..(MeshGridSize - 1)) \X (0..(MeshGridSize - 1)) \X (0..(MeshGridSize - 1)),
        d \in MeshDensities }

DensityInit ==
    /\ Nodes = << >>
    /\ KeyToNodeIndex = EmptyMap
    /\ RootIndices = << >>
    /\ Chunks = EmptyMap
    /\ CameraPosition = NoCamera
    /\ NoTasks
    /\ Configured(SmallConfiguration) /\ ActorConstructed
    /\ \E field \in DensityFields :
           lastCall = Call("DensityField", NoChunk, field, [ Value |-> 0, Reads |-> {} ])

\* GetDensity(DensityField, GridSize, x, y, z)
GetDensityCall ==
    /\ lastCall.op = "DensityField"
    /\ \E x \in (0 - 1)..lastCall.arg.GridSize, y \in (0 - 1)..lastCall.arg.GridSize,
          z \in (0 - 1)..lastCall.arg.GridSize :
         lastCall' = Call("GetDensity", NoChunk,
                          [ DensityField |-> lastCall.arg.DensityField,
                            GridSize |-> lastCall.arg.GridSize,
                            Point |-> << x, y, z >> ],
                          [ Value |-> GetDensity(lastCall.arg.DensityField,
                                                 lastCall.arg.GridSize, x, y, z),
                            Reads |-> GetDensityReads(lastCall.arg.GridSize, x, y, z) ])
    /\ UNCHANGED << Nodes, KeyToNodeIndex, RootIndices, Chunks, ActiveTasks,
                    CompletionCallbacks, Invoked, CameraPosition,
                    Configuration, ActorState, LockState >>

DensitySpec == DensityInit /\ [][GetDensityCall]_vars

OutOfRangeQuery ==
    /\ lastCall.op = "GetDensity"
    /\ \E k \in 1..3 : lastCall.arg.Point[k] < 0 \/ lastCall.arg.Point[k] >= lastCall.arg.GridSize

C24_ExtractionBoundsFromOne ==
    \A c \in DOMAIN Chunks :
        \A i \in 1..Len(Chunks[c].Vertices) :
            \A k \in 1..3 :
                /\ Chunks[c].Vertices[i][k] >= 1
                /\ Chunks[c].Vertices[i][k] < Chunks[c].VoxelResolution + 1


\* C25: right after InitializeOctree, before any UpdateLOD call, the tree has
\* exactly one node, the root, and the root is an active leaf
C25_RootStartsLeafActive ==
    lastCall.op = "InitializeOctree" =>
        /\ Len(Nodes) = 1
        /\ RootIndices = << 0 >>
        /\ ~Nodes[1].bHasChildren
        /\ Nodes[1].bIsActive


\* the octree under generation tasks, initialised again at any time
ReinitNext == CancelNext \/ InitializeOctree

ReinitSpec == Init /\ [][ReinitNext]_vars

\* the key of the root
RootKey == FOctreeKey(MaxDepth, << 0, 0, 0 >>)

\* C26: an InitializeOctree call made in any state leaves an arena of exactly
\* one node, the root, a key map that holds exactly the root key and maps it
\* to that node, a root list that holds exactly its index, and a root that
\* points to no chunk, so that no chunk of the tree before is reachable
C26_ReinitializationReseeds ==
    [][ lastCall'.op = "InitializeOctree"
        => /\ Len(Nodes') = 1
           /\ Nodes'[1].Key = RootKey
           /\ Nodes'[1].ParentIndex = NoIndex
           /\ ~Nodes'[1].bHasChildren
           /\ DOMAIN KeyToNodeIndex' = { RootKey }
           /\ KeyToNodeIndex'[RootKey] = 0
           /\ RootIndices' = << 0 >>
           /\ NodeChunks(Nodes') = {}
           /\ GetActiveChunks(Nodes') = << >>
           /\ DOMAIN Chunks' \subseteq TaskChunks(ActiveTasks') ]_vars

\* InitializeOctree has returned on a tree that had chunks: a task still holds
\* a chunk of the tree before, and the new root points to none
C26_Witness ==
    /\ lastCall.op = "InitializeOctree"
    /\ CameraPosition # NoCamera
    /\ Chunks # EmptyMap
    /\ Len(Nodes) = 1
    /\ RootIndices = << 0 >>
    /\ NodeChunks(Nodes) = {}


(***************************************************************************)
(* Two neighbouring chunks of the same size and resolution, each extracted *)
(* on its own (SeamSpec)                                                   *)
(***************************************************************************)
\* a vertex of a chunk: FSurfaceNets::CalculateVertexPosition returns
\* Origin + ((x, y, z) + CentroidOffset) * VoxelSize, where CentroidOffset is
\* computed from the densities at the 8 corners of the cell alone.  The vertex
\* is kept as the world position of the cell's corner (times VoxelResolution)
\* and the 8 corner densities.
ChunkVertex(place, field, GridSize, cell) ==
    [ Corner |-> ScaledWorldPos(place, cell),
      CornerDists |-> [ i \in 1..8 |->
                          GetDensity(field, GridSize, cell[1] + CubeCorners[i][1],
                                     cell[2] + CubeCorners[i][2],
                                     cell[3] + CubeCorners[i][3]) ] ]

\* what FPlanetChunk::GenerateMesh extracts for a chunk at place: the padded
\* lattice points in world space, the cells that hold a vertex, the vertices
ExtractSeamChunk(place, generator) ==
    LET padded == GeneratePaddedDensityField(place, generator)
        cells == IF padded.bHasSurface
                 THEN EstimateSurface(padded.DensityField, padded.PaddedSize,
                                      0, place.VoxelResolution + 1)
                 ELSE << >>
    IN [ PaddedSize |-> padded.PaddedSize,
         Lattice |-> [ n \in 0..(padded.PaddedSize * padded.PaddedSize * padded.PaddedSize - 1)
                         |-> ScaledWorldPos(place, LatticePoint(n, padded.PaddedSize)) ],
         DensityField |-> padded.DensityField,
         Cells |-> cells,
         Vertices |-> [ i \in 1..Len(cells) |->
                          ChunkVertex(place, padded.DensityField, padded.PaddedSize, cells[i]) ] ]

\* the pairs of places the octree can make where the second chunk is the
\* neighbour of the first one step of Size up the axis
SeamPairs ==
    LET Places == NodePlaces(WorldCenter, SmallConfiguration.RootSize,
                             SmallConfiguration.MaxDepth)
    IN { p \in Places \X Places \X (1..3) :
           /\ p[1].Size = p[2].Size
           /\ p[1].VoxelResolution = p[2].VoxelResolution
           /\ p[2].Position = [ k \in 1..3 |->
                                  p[1].Position[k] + (IF k = p[3] THEN p[1].Size ELSE 0) ] }

SeamInit ==
    /\ Nodes = << >>
    /\ KeyToNodeIndex = EmptyMap
    /\ RootIndices = << >>
    /\ Chunks = EmptyMap
    /\ CameraPosition = NoCamera
    /\ NoTasks
    /\ Configured(SmallConfiguration) /\ ActorConstructed
    /\ \E p \in SeamPairs, generator \in NoiseGenerators :
           lastCall = Call("Neighbours", NoChunk,
                           [ A |-> p[1], B |-> p[2], Axis |-> p[3], Generator |-> generator ],
                           << >>)

\* GenerateMesh on the first chunk, then GenerateMesh on its neighbour
GenerateNeighboursCall ==
    /\ lastCall.op = "Neighbours"
    /\ lastCall' = Call("GenerateMesh, GenerateMesh", NoChunk, lastCall.arg,
                        [ A |-> ExtractSeamChunk(lastCall.arg.A, lastCall.arg.Generator),
                          B |-> ExtractSeamChunk(lastCall.arg.B, lastCall.arg.Generator) ])
    /\ UNCHANGED << Nodes, KeyToNodeIndex, RootIndices, Chunks, ActiveTasks,
                    CompletionCallbacks, Invoked, CameraPosition,
                    Configuration, ActorState, LockState >>

SeamSpec == SeamInit /\ [][GenerateNeighboursCall]_vars

NeighboursExtracted == lastCall.op = "GenerateMesh, GenerateMesh"

\* the lattice points of the first chunk on and one step before the shared
\* face, and the point of the neighbour's lattice each of them falls on
SeamPoints ==
    LET r == lastCall.arg.A.VoxelResolution
    IN { pt \in (0..(r + 1)) \X (0..(r + 1)) \X (0..(r + 1)) :
           pt[lastCall.arg.Axis] \in { r, r + 1 } }

AcrossSeam(pt) ==
    [ k \in 1..3 |-> IF k = lastCall.arg.Axis
                     THEN pt[k] - lastCall.arg.A.VoxelResolution ELSE pt[k] ]

FlatIndex(pt, N) == pt[1] + pt[2] * N + pt[3] * N * N

\* the vertex a chunk holds in a cell, << >> for none
VertexInCell(chunk, cell) ==
    IF \E i \in 1..Len(chunk.Cells) : chunk.Cells[i] = cell
    THEN << chunk.Vertices[CHOOSE i \in 1..Len(chunk.Cells) : chunk.Cells[i] = cell] >>
    ELSE << >>

\* C27: for two neighbouring chunks of the same size and resolution, the last
\* two layers of lattice points of the first chunk lie at the world positions
\* of the first two layers of the second chunk and get the same densities, and
\* the cell between them holds a vertex in the one chunk iff it does in the
\* other, at the same world position
C27_SeamVerticesCoincide ==
    NeighboursExtracted =>
        LET A == lastCall.ret.A
            B == lastCall.ret.B
            N == A.PaddedSize
        IN /\ B.PaddedSize = N
           /\ \A pt \in SeamPoints :
                  /\ A.Lattice[FlatIndex(pt, N)] = B.Lattice[FlatIndex(AcrossSeam(pt), N)]
                  /\ A.DensityField[FlatIndex(pt, N)]
                       = B.DensityField[FlatIndex(AcrossSeam(pt), N)]
           /\ \A cell \in SeamPoints :
                  (\A k \in 1..3 : cell[k] <= lastCall.arg.A.VoxelResolution)
                      => VertexInCell(A, cell) = VertexInCell(B, AcrossSeam(cell))

\* both chunks hold a vertex in a cell of the shared face
C27_Witness ==
    /\ NeighboursExtracted
    /\ \E cell \in SeamPoints :
           /\ VertexInCell(lastCall.ret.A, cell) # << >>
           /\ VertexInCell(lastCall.ret.B, AcrossSeam(cell)) # << >>


C29_GeneratedWhenCallbackRuns ==
    [][ \A inv \in Invoked' \ Invoked :
            inv[2] \in DOMAIN Chunks'
                => /\ Chunks'[inv[2]].bIsGenerated
                   /\ ~Chunks'[inv[2]].bIsGenerating ]_vars


(***************************************************************************)
(* The second pass of UpdateLOD, index by index                            *)
(***************************************************************************)
\* the octree as the k-th recorded subdivision finds it
BeforeSubdivision(P, k) ==
    ApplySubdivisions(Tree(P.Nodes, P.KeyToNodeIndex), SubSeq(P.NodesToSubdivide, 1, k - 1))

\* the octree as the k-th recorded merge finds it: after every recorded
\* subdivision and the merges recorded before it
BeforeMerge(P, k) ==
    ApplyMerges(ApplySubdivisions(Tree(P.Nodes, P.KeyToNodeIndex), P.NodesToSubdivide),
                SubSeq(P.NodesToMerge, 1, k - 1))

\* the slot NodeIndex of T holds the live node the first pass evaluated there
SameLiveNode(P, T, NodeIndex) ==
    /\ IsValidIndex(T.Nodes, NodeIndex)
    /\ NodeAt(T.Nodes, NodeIndex) # DefaultNode
    /\ NodeAt(T.Nodes, NodeIndex).Key = NodeAt(P.Nodes, NodeIndex).Key
    /\ NodeAt(T.Nodes, NodeIndex).ParentIndex = NodeAt(P.Nodes, NodeIndex).ParentIndex
    /\ NodeAt(T.Nodes, NodeIndex).Key \in DOMAIN T.KeyToNodeIndex
    /\ T.KeyToNodeIndex[NodeAt(T.Nodes, NodeIndex).Key] = NodeIndex

\* the k-th recorded merge is for a node below a node recorded for merging
\* before it, whose merge has cleared the slot; MergeNode, applied to the
\* cleared slot, returns without effect
ClearedByEarlierMerge(P, k) ==
    LET T == BeforeMerge(P, k)
        NodeIndex == P.NodesToMerge[k]
    IN /\ \E j \in 1..(k - 1) : NodeIndex \in Descendants(P.Nodes, P.NodesToMerge[j])
       /\ NodeAt(T.Nodes, NodeIndex) = DefaultNode
       /\ MergeNode(T, NodeIndex) = T

\* C30: every index applied in the second pass of UpdateLOD, a recorded
\* subdivision or a recorded merge, is at the moment it is applied the index
\* of the live node the first pass evaluated; none is applied to a slot that
\* an earlier merge of the same pass has cleared
C30_SecondPassIndicesLive ==
    [][ (lastCall'.op = "UpdateLOD" /\ RootIndices # << >>)
        => LET P == CallFirstPass
           IN /\ \A k \in 1..Len(P.NodesToSubdivide) :
                     SameLiveNode(P, BeforeSubdivision(P, k), P.NodesToSubdivide[k])
              /\ \A k \in 1..Len(P.NodesToMerge) :
                     SameLiveNode(P, BeforeMerge(P, k), P.NodesToMerge[k]) ]_vars


\* C30 as it holds: every recorded subdivision is applied to the live node the
\* first pass evaluated; every recorded merge is applied either to the live
\* node the first pass evaluated or to the slot of a node below an earlier
\* recorded merge, which that merge has cleared, and there MergeNode returns
\* without effect; the octree the call leaves is the one these steps produce
C30_SecondPassIndicesLiveOrCleared ==
    [][ (lastCall'.op = "UpdateLOD" /\ RootIndices # << >>)
        => LET P == CallFirstPass
           IN /\ \A k \in 1..Len(P.NodesToSubdivide) :
                     SameLiveNode(P, BeforeSubdivision(P, k), P.NodesToSubdivide[k])
              /\ \A k \in 1..Len(P.NodesToMerge) :
                     \/ SameLiveNode(P, BeforeMerge(P, k), P.NodesToMerge[k])
                     \/ ClearedByEarlierMerge(P, k)
              /\ LET T == BeforeMerge(P, Len(P.NodesToMerge) + 1)
                 IN /\ KeyToNodeIndex' = T.KeyToNodeIndex
                    /\ Len(Nodes') = Len(T.Nodes) ]_vars

\* an UpdateLOD call that recorded two merges, the second for a node below
\* the first, and has left the slot of the second cleared
C30_Witness ==
    /\ lastCall.op = "UpdateLOD"
    /\ Len(lastCall.arg.NodesToMerge) >= 2
    /\ NodeAt(Nodes, lastCall.arg.NodesToMerge[2]) = DefaultNode


(***************************************************************************)
(* Structure of the octree: KeyToNodeIndex, ChildIndices, ParentIndex      *)
(***************************************************************************)
\* the arena indices of the live nodes: the roots and everything below them
ReachableNodes == Range(RootIndices) \cup UNION { Descendants(Nodes, r) : r \in Range(RootIndices) }

\* C31: KeyToNodeIndex is a bijection between the keys of the nodes reachable
\* from the roots and their arena indices: every entry points to an in-range
\* slot of a reachable node that has the key, every reachable node has its
\* entry, and no two reachable nodes have the same key
C31_KeyMapBijection ==
    /\ \A k \in DOMAIN KeyToNodeIndex :
           /\ IsValidIndex(Nodes, KeyToNodeIndex[k])
           /\ NodeAt(Nodes, KeyToNodeIndex[k]).Key = k
           /\ KeyToNodeIndex[k] \in ReachableNodes
    /\ \A i \in ReachableNodes :
           /\ NodeAt(Nodes, i).Key \in DOMAIN KeyToNodeIndex
           /\ KeyToNodeIndex[NodeAt(Nodes, i).Key] = i
    /\ \A i, j \in ReachableNodes :
           NodeAt(Nodes, i).Key = NodeAt(Nodes, j).Key => i = j

\* an octree two levels deep in which a merge has cleared slots of the arena
C31_Witness ==
    /\ lastCall.op \in { "UpdateLOD", "MergeNode" }
    /\ ClearedSlots # {}
    /\ \E i \in ReachableNodes : NodeAt(Nodes, i).ParentIndex \notin Range(RootIndices) \cup {NoIndex}


\* the present child indices of the node in slot i
PresentChildIndices(i) == { c \in Range(NodeAt(Nodes, i).ChildIndices) : c # NoIndex }

\* C32: every present child index of a node reachable from the roots is in
\* range and is the slot of a reachable node whose ParentIndex is the index of
\* that node, whose key is one level below the key of that node and has that
\* key as its GetParent; no node is the child of two nodes
C32_ChildLinksConsistent ==
    /\ \A i \in ReachableNodes : \A c \in PresentChildIndices(i) :
           /\ IsValidIndex(Nodes, c)
           /\ c \in ReachableNodes
           /\ NodeAt(Nodes, c) # DefaultNode
           /\ NodeAt(Nodes, c).ParentIndex = i
           /\ NodeAt(Nodes, c).Key.Level = NodeAt(Nodes, i).Key.Level - 1
           /\ GetParent(NodeAt(Nodes, c).Key) = NodeAt(Nodes, i).Key
    /\ \A i, j \in ReachableNodes :
           PresentChildIndices(i) \cap PresentChildIndices(j) # {} => i = j
    /\ \A i \in ReachableNodes : \A a, b \in 1..8 :
           (NodeAt(Nodes, i).ChildIndices[a] # NoIndex
            /\ NodeAt(Nodes, i).ChildIndices[a] = NodeAt(Nodes, i).ChildIndices[b]) => a = b

\* an octree with a subdivided child of the root, after a merge elsewhere
\* has cleared slots
C32_Witness ==
    /\ ClearedSlots # {}
    /\ \E i \in ReachableNodes :
           /\ NodeAt(Nodes, i).ParentIndex # NoIndex
           /\ PresentChildIndices(i) # {}


(***************************************************************************)
(* The length of the arena over many UpdateLOD calls                       *)
(***************************************************************************)
\* cap on the arena where the octree is one level deep
MaxArenaNodes == 41

\* an octree of depth 1: the root and its 8 children
ArenaConfiguration == [ MaxDepth |-> 1, RootSize |-> 16, SubdivisionDistance |-> 6 ]

\* viewers near the root centre and away from it
ArenaCameraPositions ==
    { <<0, 0, 0>>, <<1, 0, 0>>, <<2, 0, 0>>, <<3, 0, 0>>, <<4, 0, 0>>, <<5, 0, 0>>,
      <<0, 3, 0>>, <<32, 0, 0>> }

ArenaInit == Constructed /\ NoTasks /\ Configured(ArenaConfiguration) /\ ActorConstructed

ArenaNext ==
    \/ InitializeOctree
    \/ \E camera \in ArenaCameraPositions : UpdateLOD(camera, MaxArenaNodes)

ArenaSpec == ArenaInit /\ [][ArenaNext]_vars

\* the number of nodes of a full octree of the given depth: 1 + 8 + ... + 8^depth
RECURSIVE FullTreeNodes(_)
FullTreeNodes(depth) == IF depth <= 0 THEN 1 ELSE 1 + 8 * FullTreeNodes(depth - 1)

\* C33: the arena never has more slots than a full octree of depth MaxDepth
\* has nodes
C33_ArenaBounded == Len(Nodes) <= FullTreeNodes(MaxDepth)


(***************************************************************************)
(* Tasks and their completion callbacks                                    *)
(***************************************************************************)
\* the positions of the tasks whose DoWork has returned
DoneTasks == { i \in DOMAIN ActiveTasks : ActiveTasks[i].state = "done" }

\* the tasks with their callbacks, position by position, without the done ones
RECURSIVE PairsNotDone(_, _, _)
PairsNotDone(tasks, callbacks, i) ==
    IF i > Len(tasks) THEN << >>
    ELSE (IF tasks[i].state = "done" THEN << >> ELSE << << tasks[i], callbacks[i] >> >>)
         \o PairsNotDone(tasks, callbacks, i + 1)

\* C37: the task list and the callback list have the same length, and a call
\* of ProcessCompletedTasks invokes exactly the callbacks registered at the
\* positions of the tasks whose work is done, each with the chunk of its task,
\* and removes those tasks together with their callbacks, so that no callback
\* can be invoked again and the tasks left keep the callbacks registered with
\* them; no other call invokes a callback
C37_CallbackOfFinishedTask ==
    [][ /\ Len(ActiveTasks) = Len(CompletionCallbacks)
        /\ Len(ActiveTasks') = Len(CompletionCallbacks')
        /\ lastCall'.op # "ProcessCompletedTasks" => Invoked' = Invoked
        /\ lastCall'.op = "ProcessCompletedTasks"
           => /\ Invoked' = Invoked \cup
                     { << CompletionCallbacks[i], ActiveTasks[i].Chunk >> :
                           i \in { j \in DoneTasks : CompletionCallbacks[j] # NoCallback } }
              /\ PairsNotDone(ActiveTasks', CompletionCallbacks', 1)
                     = PairsNotDone(ActiveTasks, CompletionCallbacks, 1)
              /\ \A i \in DOMAIN ActiveTasks' : ActiveTasks'[i].state # "done" ]_vars


\* ProcessCompletedTasks has returned, a callback has been invoked, and a task
\* registered without callback is still in the list, its work not done
C37_Witness ==
    /\ lastCall.op = "ProcessCompletedTasks"
    /\ Invoked # {}
    /\ Len(ActiveTasks) = 1
    /\ ActiveTasks[1].state # "done"
    /\ CompletionCallbacks = << NoCallback >>


\* C38: a chunk that no task in the task list holds is not generating
C38_NotGeneratingWithoutTask ==
    \A id \in DOMAIN Chunks :
        id \notin TaskChunks(ActiveTasks) => ~Chunks[id].bIsGenerating


(***************************************************************************)
(* APlanetActor: the pool of mesh components, ActiveChunkMeshes and        *)
(* PendingChunks                                                           *)
(*                                                                         *)
(* A component is named by its position 1..PoolSize in MeshComponentPool;  *)
(* 0 is nullptr.  ActiveChunkMeshes is keyed by FPlanetChunk*, here the    *)
(* identity of the chunk, which can outlive the chunk.  PendingChunks      *)
(* holds TSharedPtr, so a queued chunk lives on.  The mesh sections of a   *)
(* component are rendering state and are not kept.                         *)
(***************************************************************************)
\* cap on the arena in the calls the actor makes
MaxActorNodes == 9
\* cap on the length of PendingChunks
MaxPending == 2

MaxActiveChunks == ActorConfiguration.MaxActiveChunks
MaxChunksPerFrame == ActorConfiguration.MaxChunksPerFrame

\* the viewer positions: at the planet centre and far from it
ActorCameraPositions == { <<0, 0, 0>>, <<32, 0, 0>> }
\* the frame time handed to Tick: half of LODUpdateInterval
DeltaTimes == { 1 }
\* the UNoiseGenerator subobject of the actor
ActorNoiseGenerator == CHOOSE g \in AsyncNoiseGenerators : TRUE

\* APlanetActor::GetMeshFromPool: the first component that is not visible
GetMeshFromPool(visible) ==
    IF \E c \in DOMAIN visible : ~visible[c]
    THEN CHOOSE c \in DOMAIN visible :
             ~visible[c] /\ \A b \in 1..(c - 1) : visible[b]
    ELSE 0

\* APlanetActor::ReturnMeshToPool
ReturnMeshToPool(visible, MeshComponent) ==
    IF MeshComponent = 0 THEN visible
    ELSE [ visible EXCEPT ![MeshComponent] = FALSE ]

\* the components of the given map entries, returned to the pool one by one
RECURSIVE ReturnAll(_, _, _)
ReturnAll(visible, meshes, keys) ==
    IF keys = {} THEN visible
    ELSE LET k == CHOOSE x \in keys : TRUE
         IN ReturnAll(ReturnMeshToPool(visible, meshes[k]), meshes, keys \ {k})

\* APlanetActor::GenerateChunkMesh: the chunk after "if (!bIsGenerated &&
\* !bIsGenerating) Chunk->GenerateMesh(NoiseGenerator)"
GenerateChunkMesh(chunk) ==
    IF ~chunk.bIsGenerated /\ ~chunk.bIsGenerating
    THEN GenerateMesh(chunk, ActorNoiseGenerator).chunk
    ELSE chunk

\* the arrays ActiveChunkPtrs can be after "Sort by DistanceFromCamera;
\* SetNum(MaxActiveChunks)": the order the sort gives to chunks at the same
\* distance is not fixed by the program
SortedAndCut(ptrs, store) ==
    IF Len(ptrs) <= MaxActiveChunks THEN { ptrs }
    ELSE { kept \in [ 1..MaxActiveChunks -> Range(ptrs) ] :
             /\ \A i, j \in 1..MaxActiveChunks : kept[i] = kept[j] => i = j
             /\ \A i, j \in 1..MaxActiveChunks :
                    i < j => store[kept[i]].DistanceFromCameraSq
                                 <= store[kept[j]].DistanceFromCameraSq
             /\ \A x \in Range(ptrs) \ Range(kept) : \A i \in 1..MaxActiveChunks :
                    store[kept[i]].DistanceFromCameraSq <= store[x].DistanceFromCameraSq }

\* "Add new chunks to pending queue": the chunks of ActiveChunks, in order,
\* that ActiveChunkMeshes does not contain
RECURSIVE EnqueueUnmapped(_, _, _)
EnqueueUnmapped(pending, ActiveChunks, meshes) ==
    IF ActiveChunks = << >> THEN pending
    ELSE EnqueueUnmapped(
             IF Head(ActiveChunks) \in DOMAIN meshes THEN pending
             ELSE Append(pending, Head(ActiveChunks)),
             Tail(ActiveChunks), meshes)

\* APlanetActor::UpdateChunkMeshes once ActiveChunkPtrs is known;
\* A is [Visible, Meshes, Pending]
UpdateChunkMeshes(A, ActiveChunkPtrs) ==
    LET New == Range(ActiveChunkPtrs)
        ChunksToRemove == (DOMAIN A.Meshes) \ New
        meshes == [ k \in (DOMAIN A.Meshes) \ ChunksToRemove |-> A.Meshes[k] ]
    IN [ Visible |-> ReturnAll(A.Visible, A.Meshes, ChunksToRemove),
         Meshes |-> meshes,
         Pending |-> EnqueueUnmapped(A.Pending, ActiveChunkPtrs, meshes),
         NewActiveChunks |-> New ]

\* APlanetActor::ProcessPendingChunks;
\* B is [Pending, Visible, Meshes, Chunks, ProcessedThisFrame]
RECURSIVE ProcessPendingChunks(_)
ProcessPendingChunks(B) ==
    IF B.Pending = << >> \/ B.ProcessedThisFrame >= MaxChunksPerFrame THEN B
    ELSE LET Chunk == Head(B.Pending)
             rest == Tail(B.Pending)
         IN IF Chunk \in DOMAIN B.Meshes
            THEN ProcessPendingChunks([ B EXCEPT !.Pending = rest ])
            ELSE LET MeshComponent == GetMeshFromPool(B.Visible)
                 IN IF MeshComponent # 0
                    THEN ProcessPendingChunks(
                             [ Pending |-> rest,
                               Visible |-> [ B.Visible EXCEPT ![MeshComponent] = TRUE ],
                               Meshes |-> MapAdd(B.Meshes, Chunk, MeshComponent),
                               Chunks |-> [ B.Chunks EXCEPT ![Chunk] = GenerateChunkMesh(@) ],
                               ProcessedThisFrame |-> B.ProcessedThisFrame + 1 ])
                    ELSE [ B EXCEPT !.Pending = Append(rest, Chunk) ]

\* APlanetActor::ShouldUpdateLOD
ShouldUpdateLOD(camera) ==
    DistSquared(camera, LastCameraPosition)
        > ActorConfiguration.MinCameraMovementForUpdate
              * ActorConfiguration.MinCameraMovementForUpdate

\* the owners of chunks outside the octree: the queue (and the task list).
\* A chunk that ActiveChunkMeshes still names may have been destroyed; whether
\* a new chunk is then given its address is up to the allocator: `reuse`
Held(pending, reuse) ==
    Range(pending) \cup TaskChunks(ActiveTasks)
        \cup (IF reuse THEN {} ELSE DOMAIN ActiveChunkMeshes)

\* OctreeComponent->UpdateLOD(camera) as the actor calls it: the octree and
\* the chunk store after it
OctreeAfterLOD(store, pending, camera, reuse) ==
    IF Len(RootIndices) = 0
    THEN [ Nodes |-> Nodes, KeyToNodeIndex |-> KeyToNodeIndex, Chunks |-> store ]
    ELSE LODPasses(Nodes, KeyToNodeIndex, RootIndices, store, Held(pending, reuse), camera)

\* the chunks that live on: a node, the queue or a task points to them
LiveChunks(store, nodes, pending) ==
    Collect(store, NodeChunks(nodes) \cup Range(pending) \cup TaskChunks(ActiveTasks))

\* APlanetActor::UpdatePlanetLOD(camera) from the members B; the variables
\* after it, for one outcome of the allocator and of the sort
PlanetLODFrom(B, camera) ==
    \E reuse \in BOOLEAN :
        LET L == OctreeAfterLOD(B.Chunks, B.Pending, camera, reuse)
        IN \E kept \in SortedAndCut(GetActiveChunks(L.Nodes), L.Chunks) :
               LET U == UpdateChunkMeshes(B, kept)
               IN /\ Len(U.Pending) <= MaxPending
                  /\ Nodes' = L.Nodes
                  /\ KeyToNodeIndex' = L.KeyToNodeIndex
                  /\ Chunks' = LiveChunks(L.Chunks, L.Nodes, U.Pending)
                  /\ MeshVisible' = U.Visible
                  /\ ActiveChunkMeshes' = U.Meshes
                  /\ PendingChunks' = U.Pending
                  /\ NewActiveChunks' = U.NewActiveChunks
                  /\ CameraPosition' = camera

\* the arena stays within the cap in the UpdateLOD call
WithinArenaCap(camera) ==
    Len(Nodes) + 8 * Len(NodesToSubdivide(
        UpdateDistances(Nodes, BreadthFirst(Nodes, RootIndices), camera),
        BreadthFirst(Nodes, RootIndices))) <= MaxActorNodes

\* the members the handlers below work on
Members ==
    [ Visible |-> MeshVisible, Meshes |-> ActiveChunkMeshes, Pending |-> PendingChunks,
      Chunks |-> Chunks, ProcessedThisFrame |-> 0 ]

\* APlanetActor::InitializePlanet (BeginPlay calls it, and it is BlueprintCallable)
InitializePlanet ==
    LET T == CreateNode(Tree(<< >>, EmptyMap), FOctreeKey(MaxDepth, <<0, 0, 0>>),
                        WorldCenter, RootSize, NoIndex)
    IN /\ Nodes' = T.Nodes
       /\ KeyToNodeIndex' = T.KeyToNodeIndex
       /\ RootIndices' = << 0 >>
       /\ ActiveChunkMeshes' = EmptyMap
       /\ PendingChunks' = << >>
       /\ Chunks' = Collect(Chunks, TaskChunks(ActiveTasks))
       /\ lastCall' = Call("InitializePlanet", NoChunk, 0, TRUE)
       /\ UNCHANGED << ActiveTasks, CompletionCallbacks, Invoked, CameraPosition,
                       Configuration, LockState, MeshVisible, NewActiveChunks,
                       LastCameraPosition, LODUpdateTimer, bLODUpdatesEnabled >>

\* APlanetActor::SetLODUpdatesEnabled
SetLODUpdatesEnabled(bEnabled) ==
    /\ bLODUpdatesEnabled' = bEnabled
    /\ PendingChunks' = IF bEnabled THEN PendingChunks ELSE << >>
    /\ Chunks' = LiveChunks(Chunks, Nodes, PendingChunks')
    /\ lastCall' = Call("SetLODUpdatesEnabled", NoChunk, bEnabled, TRUE)
    /\ UNCHANGED << Nodes, KeyToNodeIndex, RootIndices, ActiveTasks, CompletionCallbacks,
                    Invoked, CameraPosition, Configuration, LockState, MeshVisible,
                    ActiveChunkMeshes, NewActiveChunks, LastCameraPosition,
                    LODUpdateTimer >>

\* APlanetActor::UpdatePlanetLOD
UpdatePlanetLOD(camera) ==
    /\ WithinArenaCap(camera)
    /\ PlanetLODFrom(Members, camera)
    /\ lastCall' = Call("UpdatePlanetLOD", NoChunk, camera, TRUE)
    /\ UNCHANGED << RootIndices, ActiveTasks, CompletionCallbacks, Invoked,
                    Configuration, LockState, LastCameraPosition, LODUpdateTimer,
                    bLODUpdatesEnabled >>

\* APlanetActor::Tick with the viewer at CameraLocation; the value recorded
\* as returned is ChunksGeneratedThisFrame
Tick(DeltaTime, CameraLocation) ==
    LET timer == LODUpdateTimer + DeltaTime
        P == ProcessPendingChunks(Members)
        due == timer >= ActorConfiguration.LODUpdateInterval
    IN /\ lastCall' = Call("Tick", NoChunk,
                           [ DeltaTime |-> DeltaTime, CameraLocation |-> CameraLocation ],
                           IF bLODUpdatesEnabled THEN P.ProcessedThisFrame ELSE 0)
       /\ IF ~bLODUpdatesEnabled
          THEN UNCHANGED << Nodes, KeyToNodeIndex, Chunks, CameraPosition, MeshVisible,
                            ActiveChunkMeshes, PendingChunks, NewActiveChunks,
                            LastCameraPosition, LODUpdateTimer >>
          ELSE /\ LODUpdateTimer' = IF due THEN 0 ELSE timer
               /\ IF due /\ ShouldUpdateLOD(CameraLocation)
                  THEN /\ WithinArenaCap(CameraLocation)
                       /\ PlanetLODFrom(P, CameraLocation)
                       /\ LastCameraPosition' = CameraLocation
                  ELSE /\ MeshVisible' = P.Visible
                       /\ ActiveChunkMeshes' = P.Meshes
                       /\ PendingChunks' = P.Pending
                       /\ Chunks' = LiveChunks(P.Chunks, Nodes, P.Pending)
                       /\ UNCHANGED << Nodes, KeyToNodeIndex, CameraPosition,
                                       NewActiveChunks, LastCameraPosition >>
       /\ UNCHANGED << RootIndices, ActiveTasks, CompletionCallbacks, Invoked,
                       Configuration, LockState, bLODUpdatesEnabled >>

\* the actor in play: BeginPlay initialises the planet, then the engine ticks
\* it and blueprints call its functions
PlanetNext ==
    \/ InitializePlanet
    \/ Nodes # << >> /\ \E camera \in ActorCameraPositions : UpdatePlanetLOD(camera)
    \/ Nodes # << >> /\ \E DeltaTime \in DeltaTimes, CameraLocation \in ActorCameraPositions :
                           Tick(DeltaTime, CameraLocation)
    \/ Nodes # << >> /\ \E bEnabled \in BOOLEAN : SetLODUpdatesEnabled(bEnabled)

\* the actor after its constructor, over an octree of depth one
PlanetInit == Constructed /\ NoTasks /\ Configured(ArenaConfiguration) /\ ActorConstructed

PlanetSpec == PlanetInit /\ [][PlanetNext]_vars


(***************************************************************************)
(* The pool of mesh components and ActiveChunkMeshes                       *)
(***************************************************************************)
\* the chunks ActiveChunkMeshes maps to the component
MappedTo(MeshComponent) ==
    { k \in DOMAIN ActiveChunkMeshes : ActiveChunkMeshes[k] = MeshComponent }

\* C35: every component of the pool is either available (not visible) and
\* mapped to no chunk, or in use (visible) and mapped to exactly one chunk of
\* ActiveChunkMeshes; no component is in use but unmapped, InitializePlanet
\* included
C35_PoolPartition ==
    \A c \in DOMAIN MeshVisible :
        IF MeshVisible[c] THEN Cardinality(MappedTo(c)) = 1
        ELSE MappedTo(c) = {}


\* C36: every chunk that ActiveChunkMeshes maps to a component is in the
\* active set chosen by the most recent UpdateChunkMeshes; a chunk that was
\* queued and then left the active set is never given a component
C36_MappedChunksAreActive == DOMAIN ActiveChunkMeshes \subseteq NewActiveChunks


\* C39: one ProcessPendingChunks call (the one a Tick makes) gives components
\* to at most MaxChunksPerFrame chunks, and ActiveChunkMeshes never maps more
\* chunks than MaxActiveChunks nor more than the pool has components
C39_MappedWithinLimits ==
    /\ lastCall.op = "Tick" => lastCall.ret <= MaxChunksPerFrame
    /\ Cardinality(DOMAIN ActiveChunkMeshes) <= MaxActiveChunks
    /\ Cardinality(DOMAIN ActiveChunkMeshes) <= Len(MeshVisible)


\* the selected chunks that wait in PendingChunks for a component
WaitingChunks ==
    (NewActiveChunks \cap Range(PendingChunks)) \ DOMAIN ActiveChunkMeshes

\* a frame with the viewer where the last LOD update of Tick left it: the step
\* is a Tick that runs ProcessPendingChunks and no UpdatePlanetLOD
StationaryFrame ==
    /\ bLODUpdatesEnabled
    /\ lastCall'.op = "Tick"
    /\ lastCall'.arg.CameraLocation = LastCameraPosition

\* C34: with a stationary viewer and no further tree changes every selected
\* chunk eventually gets a mesh component and the queue drains, as long as
\* ProcessPendingChunks runs every frame.  A frame of a stationary viewer
\* changes nothing but the pool, the map and the queue, so the chunks can only
\* get there if every such frame with a selected chunk waiting makes progress:
\* it gives some chunk a component or takes an entry out of the queue
C34_WaitingChunkIsServed ==
    [][ StationaryFrame /\ WaitingChunks # {}
            => \/ lastCall'.ret >= 1
               \/ Len(PendingChunks') < Len(PendingChunks) ]_ActorState

=============================================================================
